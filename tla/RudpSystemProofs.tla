-------------------------- MODULE RudpSystemProofs --------------------------
(***************************************************************************)
(* The deployed system, for any clients, scripts, windows and deadlines,   *)
(* whatever the network loses, repeats or delays: the server's maps agree, *)
(* it has promoted a connection only with the client that adopted its      *)
(* number, and no application is handed a reliable payload that the other  *)
(* end of its endpoint has not queued.                                     *)
(***************************************************************************)
EXTENDS RudpSystem, ManagerProofs

-----------------------------------------------------------------------------
\* The number on a packet: a session sends, and keeps in flight, packets under
\* its own number, or under 0 from the time before it had one.
Numbered(packets, c) == \A p \in packets : p.conn_id \in {0, c}

LEMMA NumberedSends ==
  ASSUME NEW s, OK(s), NEW c, Numbered(s.tx.inflight, c)
  PROVE  Sends(s.tx, {0, c}, Payload)
<1>1. \A e \in s.tx.inflight : e.payload \in Payload
  BY Zenon DEF OK, SessionState, TxSessionState, TxEntry
<1>2. \A r \in Items(s.tx.pending_send) : r.payload \in Payload
  <2>1. s.tx.pending_send \in Seq(SendRequest) BY Zenon DEF OK, SessionState, TxSessionState
  <2>2. Items(s.tx.pending_send) \subseteq SendRequest BY <2>1 DEF Items
  <2> QED BY <2>2, Zenon DEF SendRequest
<1> QED BY <1>1, <1>2, Zenon DEF Sends, Labelled, Carries, Numbered

LEMMA ReceiveNumbered ==
  ASSUME NEW s, OK(s), NEW c, Numbered(s.tx.inflight, c),
         NEW p \in Packet, NEW lingering \in BOOLEAN
  PROVE  Numbered(on_datagram_received(s, p, lingering).tx.inflight, c)
<1>1. Sends(s.tx, {0, c}, Payload) BY NumberedSends, Zenon
<1>2. Sends(on_datagram_received(s, p, lingering).tx, {0, c}, Payload)
  BY <1>1, ReceiveSends, Zenon
<1> QED BY <1>2, Zenon DEF Sends, Labelled, Carries, Numbered

LEMMA PollNumbered ==
  ASSUME NEW s, OK(s), Numbered(s.tx.inflight, s.conn_id), NEW clock
  PROVE  /\ Numbered(poll_tx(s, clock).session.tx.inflight, s.conn_id)
         /\ Numbered(poll_tx(s, clock).out, s.conn_id)
<1> DEFINE C == {0, s.conn_id}
<1>1. Sends(s.tx, C, Payload) /\ s.conn_id \in C BY NumberedSends, Zenon
<1> HIDE DEF C
<1>2. /\ Sends(poll_tx(s, clock).session.tx, C, Payload)
      /\ Labelled(poll_tx(s, clock).out, C, Payload)
  BY <1>1, PollSends, Zenon
<1> QED BY <1>2, Zenon DEF Sends, Labelled, Carries, Numbered, C

-----------------------------------------------------------------------------
\* What one packet does to a session

\* A client takes a number once, from the SYN-ACK that ends its handshake, and
\* is Closed again only after it has reported so.
LEMMA ClientReceives ==
  ASSUME NEW s, OK(s), s.role = "Client", s.connection_state # "HandshakeReceived",
         NEW p \in Packet, NEW lingering \in BOOLEAN
  PROVE  LET t == on_datagram_received(s, p, lingering)
         IN  /\ t.role = "Client" /\ t.connection_state # "HandshakeReceived"
             /\ s.conn_id # 0 => t.conn_id = s.conn_id
             /\ t.connection_state = "HandshakeSent" =>
                  s.connection_state = "HandshakeSent" /\ t.conn_id = s.conn_id
             /\ t.connection_state = "Closed" =>
                  \/ s.connection_state = "Closed"
                  \/ "ConnectionClosed" \in EventTypes(t.rx)
<1> DEFINE kind == classify_control_kind(p.flags)
           adopts == should_adopt_server_conn_id(s, kind, p)
           a == adopt_server_conn_id(s, kind, p)
           t == on_datagram_received(s, p, lingering)
<1>1. /\ OK(a) /\ a.role = "Client" /\ a.connection_state = s.connection_state
      /\ Identity(a, "Client", a.conn_id)
      /\ adopts => kind = "SynAck" /\ s.conn_id = 0 /\ a.conn_id = p.conn_id
      /\ ~adopts => a.conn_id = s.conn_id
  BY Zenon DEF adopt_server_conn_id, should_adopt_server_conn_id, OK, SessionState, Packet,
         Identity, SessionFields
<1> HIDE DEF kind, a, adopts
<1>2. CASE has_conn_id_mismatch(a, kind, p)
  <2>1. t = Reset(a) BY <1>2, Zenon DEF on_datagram_received, kind, a
  <2>2. /\ Reset(a).role = "Client" /\ Reset(a).connection_state = "Reset"
        /\ Reset(a).conn_id = a.conn_id
    BY <1>1, Zenon DEF Reset, emit_local_error, OK, SessionState
  <2> QED BY <1>1, <2>1, <2>2, Zenon
<1>3. CASE ~has_conn_id_mismatch(a, kind, p) /\ is_duplicate_client_syn_ack(a, kind)
  <2>1. t = [a EXCEPT !.tx.final_ack_pending = @ \/ lingering]
    BY <1>3, Zenon DEF on_datagram_received, kind, a
  <2>2. /\ t.role = "Client" /\ t.connection_state = "Established"
        /\ t.conn_id = a.conn_id
    BY <1>1, <1>3, <2>1, Zenon DEF is_duplicate_client_syn_ack, Identity, SessionFields
  <2> QED BY <1>1, <2>2, Zenon
<1>4. CASE ~has_conn_id_mismatch(a, kind, p) /\ ~is_duplicate_client_syn_ack(a, kind)
  <2>1. t = process_packet(a, kind, p) BY <1>4, Zenon DEF on_datagram_received, kind, a
  <2>2. \/ ProcessedAs(a, kind, t, a.connection_state, {})
        \/ /\ a.connection_state = "Closing"
           /\ ProcessedAs(a, kind, t, "Closed", {"ConnectionClosed"})
    BY <1>1, <2>1, ProcessStep, Zenon
  <2>3. Identity(t, "Client", a.conn_id) BY <1>1, <2>1, ProcessKeeps, Zenon
  <2> HIDE DEF t
  <2>4. CASE ProcessedAs(a, kind, t, a.connection_state, {})
    <3>1. /\ t.connection_state # "HandshakeReceived"
          /\ t.connection_state = "HandshakeSent" =>
               s.connection_state = "HandshakeSent" /\ kind # "SynAck"
          /\ t.connection_state = "Closed" => s.connection_state = "Closed"
      BY <1>1, <2>4, Zenon DEF ProcessedAs, decide_connection_transition, Decision
    <3> QED BY <1>1, <2>3, <3>1, Zenon DEF t, Identity
  <2>5. CASE ProcessedAs(a, kind, t, "Closed", {"ConnectionClosed"})
    <3>1. /\ t.connection_state \notin {"HandshakeReceived", "HandshakeSent"}
          /\ "ConnectionClosed" \in EventTypes(t.rx)
      BY <1>1, <2>5, Zenon DEF ProcessedAs, decide_connection_transition, Decision
    <3> QED BY <1>1, <2>3, <3>1, Zenon DEF t, Identity
  <2> QED BY <2>2, <2>4, <2>5, Zenon
<1> QED BY <1>2, <1>3, <1>4, Zenon

\* A server's session becomes Established by a packet under its own number,
\* and reports it.
LEMMA ServerEstablishes ==
  ASSUME NEW s, OK(s), s.role = "Server", s.conn_id # 0,
         s.connection_state # "Established", NEW p \in Packet, NEW lingering,
         on_datagram_received(s, p, lingering).connection_state = "Established"
  PROVE  /\ p.conn_id = s.conn_id
         /\ "Connected" \in EventTypes(on_datagram_received(s, p, lingering).rx)
<1> DEFINE kind == classify_control_kind(p.flags)
           t == on_datagram_received(s, p, lingering)
<1>1. Reset(s).connection_state = "Reset" BY Zenon DEF Reset, emit_local_error, OK, SessionState
<1>2. t = process_packet(s, kind, p) /\ ~has_conn_id_mismatch(s, kind, p)
  BY <1>1, ServerNeverAdopts, Zenon
<1> HIDE DEF kind
<1>3. \/ ProcessedAs(s, kind, t, s.connection_state, {})
      \/ ProcessedAs(s, kind, t, "Closed", {"ConnectionClosed"})
  BY <1>2, ProcessStep, Zenon
<1> HIDE DEF t
<1>4. t.connection_state = "Established" BY Zenon DEF t
<1>5. /\ s.connection_state = "HandshakeReceived" /\ kind = "Ack"
      /\ "Connected" \in EventTypes(t.rx)
  BY <1>3, <1>4, Zenon DEF ProcessedAs, decide_connection_transition, Decision
<1>6. p.conn_id = s.conn_id
  BY <1>2, <1>5, Zenon DEF has_conn_id_mismatch, allows_server_zero_conn_id_bootstrap
<1> QED BY <1>5, <1>6, Zenon DEF t

-----------------------------------------------------------------------------
\* The inductive invariant. HandshakeAgreement rests on what is in the network
\* and in flight: the packet that makes the server promote a session carries
\* that session's number, and a client's packets carry no number but its own.

Typed ==
  /\ DOMAIN clients = Endpoint /\ DOMAIN client_seen = Endpoint
  /\ \A d \in net : d.endpoint \in Endpoint /\ d.packet \in Packet
  /\ ManagerOK(manager) /\ \A e : Served(manager, e)

IsClient(s) ==
  OK(s) /\ s.role = "Client" /\ s.connection_state # "HandshakeReceived"

\* Whatever client e has sent or may send again carries its own number or 0.
OwnNumber(e) ==
  /\ Numbered(clients[e].tx.inflight, clients[e].conn_id)
  /\ \A d \in net : (d.to = "server" /\ d.endpoint = e) =>
       d.packet.conn_id \in {0, clients[e].conn_id}

\* A client with a number that is about to open a connection has closed one.
OpensAgain(e) ==
  clients[e].connection_state \in {"Closed", "HandshakeSent"} /\ clients[e].conn_id # 0
    => "ConnectionClosed" \in client_seen[e].types

\* Before its first SYN nobody has heard of a client.
Unheard(e) ==
  clients[e].connection_state = "Closed" /\ "ConnectionClosed" \notin client_seen[e].types
    => Kind(manager, e) = "none" /\ \A d \in net : d.endpoint # e

Promoted(e) ==
  Kind(manager, e) = "active" =>
    At(manager, e).conn_id = clients[e].conn_id /\ "Connected" \in server_seen[e].types

\* How much of the scripts has been queued.
Counted == client_next \in [Endpoint -> Nat] /\ server_next \in [Endpoint -> Nat]

HInv ==
  /\ Typed
  /\ \A e \in Endpoint : IsClient(clients[e])
  /\ \A e \in Endpoint : OwnNumber(e)
  /\ \A e \in Endpoint : OpensAgain(e)
  /\ \A e \in Endpoint : Unheard(e)
  /\ \A e \in Endpoint : Placed(manager, e) /\ Promoted(e)

LEMMA FromClient ==
  ASSUME NEW e, NEW p, NEW d, d = ToServer(e, p)
  PROVE  d.to = "server" /\ d.endpoint = e /\ d.packet = p
BY DEF ToServer

LEMMA FromServer ==
  ASSUME NEW e, NEW p, NEW d, d = ToClient(e, p)
  PROVE  d.to = "client" /\ d.endpoint = e /\ d.packet = p
BY DEF ToClient

LEMMA UnchangedHInv ==
  ASSUME HInv, UNCHANGED <<clients, manager, net, client_seen, server_seen>>
  PROVE  HInv'
  BY Zenon DEF HInv, Typed, OwnNumber, OpensAgain, Unheard, Promoted

LEMMA ActiveNumber ==
  ASSUME NEW m, ManagerOK(m), NEW e, Kind(m, e) # "none"
  PROVE  At(m, e).conn_id # 0
<1>1. CASE Kind(m, e) = "active"
  <2>1. At(m, e).conn_id \in DOMAIN m.active_by_conn_id BY <1>1, ViewActive, Zenon
  <2> QED BY <2>1, Zenon DEF ManagerOK, MapsAgree
<1>2. CASE Kind(m, e) = "pending"
  <2>1. e \in DOMAIN m.pending_by_endpoint /\ At(m, e) = m.pending_by_endpoint[e]
    BY <1>2, ViewOf, Zenon
  <2> QED BY <2>1 DEF ManagerOK, MapsAgree
<1> QED BY <1>1, <1>2, ViewOf, Zenon

\* A step of client e: its session becomes s and sends out.
LEMMA ClientStep ==
  ASSUME HInv, NEW e \in Endpoint, NEW s, NEW out,
         IsClient(s), out \subseteq Packet,
         clients[e].conn_id \in {0, s.conn_id},
         Numbered(s.tx.inflight, s.conn_id), Numbered(out, s.conn_id),
         clients' = [clients EXCEPT ![e] = s],
         net' = net \cup {ToServer(e, p) : p \in out},
         manager' = manager, server_seen' = server_seen,
         DOMAIN client_seen' = Endpoint,
         \A f \in Endpoint : client_seen[f].types \subseteq client_seen'[f].types,
         s.connection_state \in {"Closed", "HandshakeSent"} /\ s.conn_id # 0 =>
           "ConnectionClosed" \in client_seen'[e].types,
         s.connection_state = "Closed" =>
           \/ "ConnectionClosed" \in client_seen'[e].types
           \/ clients[e].connection_state = "Closed" /\ out = {}
  PROVE  HInv'
<1>1. /\ DOMAIN clients = Endpoint
      /\ \A d \in net : d.endpoint \in Endpoint /\ d.packet \in Packet
      /\ ManagerOK(manager) /\ \A f : Served(manager, f)
  BY Zenon DEF HInv, Typed
<1>2. ASSUME NEW f \in Endpoint
      PROVE  /\ IsClient(clients[f]) /\ OwnNumber(f) /\ OpensAgain(f) /\ Unheard(f)
             /\ Placed(manager, f) /\ Promoted(f)
  BY Zenon DEF HInv
<1>3. /\ clients'[e] = s /\ DOMAIN clients' = Endpoint
      /\ \A f \in Endpoint : f # e => clients'[f] = clients[f]
  BY <1>1, Zenon
<1>4. ASSUME NEW d \in net'
      PROVE  \/ d \in net
             \/ /\ d.to = "server" /\ d.endpoint = e /\ d.packet \in out
                /\ out # {}
  <2>1. CASE d \in net BY <2>1, Zenon
  <2>2. CASE \E p \in out : d = ToServer(e, p)
    <3>1. PICK p \in out : d = ToServer(e, p) BY <2>2, Zenon
    <3>2. d.to = "server" /\ d.endpoint = e /\ d.packet = p BY <3>1, FromClient
    <3> QED BY <3>2, Zenon
  <2> QED BY <2>1, <2>2, Zenon
<1>5. net \subseteq net' BY Zenon
<1> DEFINE seen(f) == "ConnectionClosed" \in client_seen[f].types
<1>6. Typed' BY <1>1, <1>3, <1>4, Zenon DEF Typed
<1>7. ASSUME NEW f \in Endpoint PROVE IsClient(clients[f])'
  <2>1. IsClient(clients'[f]) BY <1>2, <1>3, Zenon
  <2> QED BY <2>1, Zenon
<1>8. ASSUME NEW f \in Endpoint PROVE OwnNumber(f)'
  <2>1. CASE f = e
    <3>1. ASSUME NEW d \in net', d.to = "server", d.endpoint = e
          PROVE  d.packet.conn_id \in {0, s.conn_id}
      <4>1. CASE d \in net BY <1>2, <3>1, <4>1, Zenon DEF OwnNumber
      <4>2. CASE d.packet \in out BY <4>2, Zenon DEF Numbered
      <4> QED BY <1>4, <4>1, <4>2, Zenon
    <3> QED BY <1>3, <2>1, <3>1, Zenon DEF OwnNumber
  <2>2. CASE f # e
    <3>1. ASSUME NEW d \in net', d.endpoint = f PROVE d \in net BY <1>4, <2>2, <3>1, Zenon
    <3> QED BY <1>2, <1>3, <2>2, <3>1, Zenon DEF OwnNumber
  <2> QED BY <2>1, <2>2, Zenon
<1>9. ASSUME NEW f \in Endpoint PROVE OpensAgain(f)'
  BY <1>2, <1>3, Zenon DEF OpensAgain
<1>10. ASSUME NEW f \in Endpoint PROVE Unheard(f)'
  <2>1. SUFFICES ASSUME clients'[f].connection_state = "Closed",
                        "ConnectionClosed" \notin client_seen'[f].types
                 PROVE  Kind(manager, f) = "none" /\ \A d \in net' : d.endpoint # f
    BY Zenon DEF Unheard
  <2>2. clients[f].connection_state = "Closed" /\ "ConnectionClosed" \notin client_seen[f].types
    BY <1>3, <2>1, Zenon
  <2>3. Kind(manager, f) = "none" /\ \A d \in net : d.endpoint # f
    BY <1>2, <2>2, Zenon DEF Unheard
  <2>4. f = e => out = {} BY <1>3, <2>1, Zenon
  <2> QED BY <1>4, <2>3, <2>4, Zenon
<1>11. ASSUME NEW f \in Endpoint PROVE Promoted(f)'
  <2>1. CASE f # e BY <1>2, <1>3, <2>1, Zenon DEF Promoted
  <2>2. CASE f = e
    <3>1. Kind(manager, e) = "active" => At(manager, e).conn_id # 0
      BY <1>1, ActiveNumber, Zenon
    <3>2. Promoted(e) BY <1>2, Zenon
    <3> QED BY <1>3, <2>2, <3>1, <3>2, Zenon DEF Promoted
  <2> QED BY <2>1, <2>2, Zenon
<1>12. ASSUME NEW f \in Endpoint PROVE Placed(manager', f) BY <1>2, Zenon
<1> QED BY <1>6, <1>7, <1>8, <1>9, <1>10, <1>11, <1>12, Zenon DEF HInv

\* What a history keeps of the types of events.
LEMMA SeenTypes ==
  ASSUME NEW log, NEW rx
  PROVE  LET types == Seen(log, rx.pending_events).types
         IN  /\ log.types \subseteq types
             /\ EventTypes(rx) \ {"DataReceived"} \subseteq types
  BY Zenon DEF Seen, EventTypes

LEMMA DrainClient ==
  ASSUME NEW s, IsClient(s)
  PROVE  LET t == [s EXCEPT !.rx = drain_events(@)]
         IN  /\ IsClient(t) /\ t.tx = s.tx /\ t.conn_id = s.conn_id
             /\ t.connection_state = s.connection_state
<1> DEFINE rx == drain_events(s.rx)
<1>1. rx \in RxSessionState
  <2>1. << >> \in Seq(SessionEvent) OBVIOUS
  <2> QED BY <2>1, ZenonT(30) DEF IsClient, drain_events, OK, SessionState, RxSessionState
<1> HIDE DEF rx
<1> DEFINE t == [s EXCEPT !.rx = rx]
<1>2. IsClient(t) /\ t.tx = s.tx /\ t.conn_id = s.conn_id
      /\ t.connection_state = s.connection_state
  BY <1>1, Zenon DEF IsClient, OK, SessionState
<1> QED BY <1>2, Zenon DEF rx

\* The client's application drains the events after every call.
LEMMA UpdateStep ==
  ASSUME HInv, NEW e \in Endpoint, NEW s, NEW out,
         IsClient(s), out \subseteq Packet,
         clients[e].conn_id \in {0, s.conn_id},
         Numbered(s.tx.inflight, s.conn_id), Numbered(out, s.conn_id),
         UpdateClient(e, s),
         net' = net \cup {ToServer(e, p) : p \in out},
         manager' = manager, server_seen' = server_seen,
         s.connection_state \in {"Closed", "HandshakeSent"} /\ s.conn_id # 0 =>
           "ConnectionClosed" \in client_seen[e].types \cup EventTypes(s.rx),
         s.connection_state = "Closed" =>
           \/ "ConnectionClosed" \in client_seen[e].types \cup EventTypes(s.rx)
           \/ clients[e].connection_state = "Closed" /\ out = {}
  PROVE  HInv'
<1> DEFINE t == [s EXCEPT !.rx = drain_events(@)]
<1>1. /\ IsClient(t) /\ t.tx = s.tx /\ t.conn_id = s.conn_id
      /\ t.connection_state = s.connection_state
  BY DrainClient, Zenon
<1>2. /\ clients' = [clients EXCEPT ![e] = t]
      /\ client_seen' = [client_seen EXCEPT ![e] = Seen(@, s.rx.pending_events)]
  BY Zenon DEF UpdateClient
<1> HIDE DEF t
<1>3. DOMAIN client_seen = Endpoint BY Zenon DEF HInv, Typed
<1>4. /\ DOMAIN client_seen' = Endpoint
      /\ client_seen'[e] = Seen(client_seen[e], s.rx.pending_events)
      /\ \A f \in Endpoint : f # e => client_seen'[f] = client_seen[f]
  BY <1>2, <1>3, Zenon
<1>5. /\ client_seen[e].types \subseteq client_seen'[e].types
      /\ EventTypes(s.rx) \ {"DataReceived"} \subseteq client_seen'[e].types
  BY <1>4, SeenTypes, ZenonT(30)
<1>6. \A f \in Endpoint : client_seen[f].types \subseteq client_seen'[f].types
  BY <1>4, <1>5, Zenon
<1>7. "ConnectionClosed" \in client_seen[e].types \cup EventTypes(s.rx) =>
        "ConnectionClosed" \in client_seen'[e].types
  BY <1>5, Zenon
<1> QED BY <1>1, <1>2, <1>4, <1>6, <1>7, ClientStep, ZenonT(30)

LEMMA ClientReceiveHInv ==
  ASSUME HInv, NEW e \in Endpoint, ClientReceive(e)
  PROVE  HInv'
<1>1. PICK d \in net, lingering \in BOOLEAN :
        /\ d.to = "client" /\ d.endpoint = e
        /\ UpdateClient(e, on_datagram_received(clients[e], d.packet, lingering))
  BY Zenon DEF ClientReceive
<1> DEFINE s == clients[e]
           p == d.packet
           t == on_datagram_received(s, p, lingering)
<1>2. /\ IsClient(s) /\ OwnNumber(e) /\ OpensAgain(e) /\ Unheard(e)
      /\ p \in Packet
  BY Zenon DEF HInv, Typed
<1>3. "ConnectionClosed" \in client_seen[e].types \/ s.connection_state # "Closed"
  BY <1>1, <1>2, Zenon DEF Unheard
<1>4. OK(t) BY <1>2, OnDatagramOK, Zenon DEF IsClient
<1>5. /\ t.role = "Client" /\ t.connection_state # "HandshakeReceived"
      /\ s.conn_id # 0 => t.conn_id = s.conn_id
      /\ t.connection_state = "HandshakeSent" =>
           s.connection_state = "HandshakeSent" /\ t.conn_id = s.conn_id
      /\ t.connection_state = "Closed" =>
           \/ s.connection_state = "Closed"
           \/ "ConnectionClosed" \in EventTypes(t.rx)
  BY <1>2, ClientReceives, ZenonT(30) DEF IsClient
<1>6. s.conn_id \in {0, t.conn_id} BY <1>5, Zenon
<1>7. Numbered(t.tx.inflight, t.conn_id)
  <2>1. Numbered(s.tx.inflight, s.conn_id) BY <1>2, Zenon DEF OwnNumber
  <2>2. Numbered(s.tx.inflight, t.conn_id)
    <3> HIDE DEF t
    <3> QED BY <1>6, <2>1, Zenon DEF Numbered
  <2>3. ASSUME NEW c, Numbered(s.tx.inflight, c) PROVE Numbered(t.tx.inflight, c)
    BY <1>2, <2>3, ReceiveNumbered, Zenon DEF IsClient
  <2> QED BY <2>2, <2>3, Zenon
<1>8. UpdateClient(e, t) BY <1>1, Zenon
<1>9. /\ net' = net \cup {ToServer(e, q) : q \in {}}
      /\ manager' = manager /\ server_seen' = server_seen
  BY Zenon DEF ClientReceive
<1> HIDE DEF t
<1>10. Numbered({}, t.conn_id) BY Zenon DEF Numbered
<1>11. t.connection_state \in {"Closed", "HandshakeSent"} /\ t.conn_id # 0 =>
         "ConnectionClosed" \in client_seen[e].types \cup EventTypes(t.rx)
  BY <1>2, <1>3, <1>5, Zenon DEF OpensAgain
<1>12. t.connection_state = "Closed" =>
         "ConnectionClosed" \in client_seen[e].types \cup EventTypes(t.rx)
  BY <1>3, <1>5, Zenon
<1>13. IsClient(t) BY <1>4, <1>5, Zenon DEF IsClient
<1> QED BY <1>6, <1>7, <1>8, <1>9, <1>10, <1>11, <1>12, <1>13, UpdateStep

LEMMA ClientPollHInv ==
  ASSUME HInv, NEW e \in Endpoint, NEW clock, ClientPoll(e, clock)
  PROVE  HInv'
<1> DEFINE s == clients[e]
           r == poll_tx(s, clock)
           t == r.session
<1>1. /\ UpdateClient(e, t) /\ net' = net \cup {ToServer(e, p) : p \in r.out}
      /\ manager' = manager /\ server_seen' = server_seen
  BY Zenon DEF ClientPoll
<1>2. IsClient(s) /\ OwnNumber(e) /\ OpensAgain(e) BY Zenon DEF HInv
<1>3. OK(s) /\ Identity(s, "Client", s.conn_id)
  BY <1>2, Zenon DEF IsClient, OK, SessionState, Identity, SessionFields
<1>4. OK(t) /\ r.out \subseteq Packet BY <1>3, PollTxOK, Zenon
<1>5. Identity(t, "Client", s.conn_id) BY <1>3, PollKeeps, Zenon
<1>6. \/ t.connection_state = "Reset"
      \/ t.connection_state = PollMove(s)
  BY <1>3, PollStep, Zenon
<1>7. Numbered(t.tx.inflight, s.conn_id) /\ Numbered(r.out, s.conn_id)
  BY <1>2, <1>3, PollNumbered, Zenon DEF OwnNumber
<1> HIDE DEF r
<1>8. IsClient(t) /\ t.conn_id = s.conn_id /\ t.connection_state # "Closed"
  BY <1>2, <1>4, <1>5, <1>6, Zenon DEF IsClient, Identity, PollMove
<1>9. t.connection_state = "HandshakeSent" =>
        s.connection_state \in {"Closed", "HandshakeSent"}
  BY <1>6, Zenon DEF PollMove
<1>10. t.connection_state \in {"Closed", "HandshakeSent"} /\ t.conn_id # 0 =>
         "ConnectionClosed" \in client_seen[e].types \cup EventTypes(t.rx)
  BY <1>2, <1>8, <1>9, Zenon DEF OpensAgain
<1> DEFINE out == r.out
<1>11. /\ clients[e].conn_id \in {0, t.conn_id}
       /\ Numbered(t.tx.inflight, t.conn_id) /\ Numbered(out, t.conn_id)
       /\ out \subseteq Packet /\ net' = net \cup {ToServer(e, p) : p \in out}
  BY <1>1, <1>4, <1>7, <1>8, Zenon
<1> HIDE DEF out, t
<1> QED BY <1>1, <1>8, <1>10, <1>11, UpdateStep, Zenon

\* queue_send, request_close and the end of the program send nothing.
LEMMA ClientQuietHInv ==
  ASSUME Counted, HInv, NEW e \in Endpoint,
         ClientQueueSend(e) \/ ClientRequestClose(e) \/ ClientExit(e)
  PROVE  HInv'
<1> DEFINE s == clients[e]
<1>1. /\ IsClient(s) /\ OwnNumber(e) /\ OpensAgain(e)
      /\ DOMAIN clients = Endpoint /\ DOMAIN client_seen = Endpoint
  BY Zenon DEF HInv, Typed
<1>2. /\ net' = net \cup {ToServer(e, p) : p \in {}}
      /\ manager' = manager /\ server_seen' = server_seen /\ client_seen' = client_seen
  BY Zenon DEF ClientQueueSend, ClientRequestClose, ClientExit
<1>3. ASSUME NEW t, clients' = [clients EXCEPT ![e] = t],
             IsClient(t), t.conn_id = s.conn_id, t.tx.inflight = s.tx.inflight,
             t.connection_state \in {s.connection_state, "Closing"}
      PROVE  HInv'
  <2> DEFINE out == {}
  <2>1. /\ Numbered(t.tx.inflight, t.conn_id) /\ Numbered(out, t.conn_id)
        /\ out \subseteq Packet /\ net' = net \cup {ToServer(e, p) : p \in out}
    BY <1>1, <1>2, <1>3, Zenon DEF OwnNumber, Numbered
  <2>2. t.connection_state \in {"Closed", "HandshakeSent"} /\ t.conn_id # 0 =>
          "ConnectionClosed" \in client_seen'[e].types
    BY <1>1, <1>2, <1>3, Zenon DEF OpensAgain
  <2>3. t.connection_state = "Closed" => clients[e].connection_state = "Closed" /\ out = {}
    BY <1>3, Zenon
  <2> HIDE DEF out
  <2>4. /\ clients[e].conn_id \in {0, t.conn_id}
        /\ DOMAIN client_seen' = Endpoint
        /\ \A f \in Endpoint : client_seen[f].types \subseteq client_seen'[f].types
    BY <1>1, <1>2, <1>3, Zenon
  <2> HIDE DEF s
  <2>5. clients' = [clients EXCEPT ![e] = t] /\ IsClient(t) BY <1>3, Zenon
  <2> QED BY <1>2, <2>1, <2>2, <2>3, <2>4, <2>5, ClientStep, Zenon
<1>4. CASE ClientQueueSend(e)
  <2> DEFINE request == ClientScript[client_next[e] + 1]
             t == queue_send(s, request)
  <2>1. clients' = [clients EXCEPT ![e] = t] BY <1>4, <1>1, Zenon DEF ClientQueueSend
  <2>2. request \in SendRequest
    <3> DEFINE n == client_next[e] + 1
    <3>1. ClientScript \in Seq(SendRequest) BY SystemAssumption, Zenon
    <3>2. n \in 1 .. Len(ClientScript) BY <1>4, <3>1 DEF ClientQueueSend, Counted
    <3> HIDE DEF n
    <3>3. ClientScript[n] \in SendRequest BY <3>1, <3>2
    <3> QED BY <3>3, Zenon DEF n
  <2> HIDE DEF request
  <2>3. OK(t) BY <1>1, <2>2, QueueSendOK, Zenon DEF IsClient
  <2>4. /\ t.role = s.role /\ t.conn_id = s.conn_id
        /\ t.connection_state = s.connection_state /\ t.tx.inflight = s.tx.inflight
    BY <1>1, Zenon DEF queue_send, queue_app_data, IsClient, OK, SessionState, TxSessionState
  <2> HIDE DEF t
  <2>5. IsClient(t) BY <1>1, <2>3, <2>4, Zenon DEF IsClient
  <2> QED BY <1>3, <2>1, <2>4, <2>5, Zenon
<1>5. CASE ClientRequestClose(e)
  <2> DEFINE t == request_close(s)
  <2>1. clients' = [clients EXCEPT ![e] = t] BY <1>5, <1>1, Zenon DEF ClientRequestClose
  <2>2. OK(t) BY <1>1, RequestCloseOK, Zenon DEF IsClient
  <2>3. /\ t.role = s.role /\ t.conn_id = s.conn_id
        /\ t.connection_state \in {s.connection_state, "Closing"}
        /\ t.tx.inflight = s.tx.inflight
    BY <1>1, Zenon DEF request_close, IsClient, OK, SessionState, TxSessionState
  <2> HIDE DEF t
  <2>4. IsClient(t) BY <1>1, <2>2, <2>3, Zenon DEF IsClient
  <2> QED BY <1>3, <2>1, <2>3, <2>4, ZenonT(30)
<1>6. CASE ClientExit(e)
  BY <1>6, UnchangedHInv, Zenon DEF ClientExit
<1> QED BY <1>4, <1>5, <1>6, Zenon

\* A step of the server: m is its manager before the events are drained.
LEMMA ServerStep ==
  ASSUME HInv, NEW m, ManagerOK(m), \A f : Served(m, f),
         \A f \in Endpoint : Placed(m, f),
         \A f \in Endpoint : Kind(m, f) = "active" =>
           /\ At(m, f).conn_id = clients[f].conn_id
           /\ "Connected" \in server_seen[f].types \cup EventTypes(At(m, f).rx),
         \A f \in Endpoint : Kind(manager, f) = "none" /\ (\A d \in net : d.endpoint # f)
           => Kind(m, f) = "none",
         UpdateServer(m), clients' = clients, client_seen' = client_seen,
         NEW out, net' = net \cup {ToClient(o[1], o[2]) : o \in out},
         \A o \in out : o[1] \in Endpoint /\ o[2] \in Packet /\ Kind(manager, o[1]) # "none"
  PROVE  HInv'
<1> DEFINE n == manager_drain_events(m)
<1>1. manager' = n BY ZenonT(30) DEF UpdateServer
<1>2. ManagerOK(n) BY ManagerDrainOK, Zenon
<1>3. \A f : Served(n, f) BY DrainServed, Zenon
<1>4. ASSUME NEW f
      PROVE  /\ Kind(n, f) = Kind(m, f)
             /\ Kind(m, f) # "none" =>
                  /\ At(n, f).conn_id = At(m, f).conn_id
                  /\ At(n, f).connection_state = At(m, f).connection_state
  <2> DEFINE s == At(m, f)
             t == [s EXCEPT !.rx = drain_events(@)]
  <2>1. Kind(n, f) = Kind(m, f) /\ (Kind(m, f) # "none" => At(n, f) = t) BY DrainView, Zenon
  <2>2. Kind(m, f) # "none" =>
          t.conn_id = s.conn_id /\ t.connection_state = s.connection_state
    BY Zenon DEF Served, OK, SessionState
  <2> HIDE DEF t, n
  <2> QED BY <2>1, <2>2, Zenon
<1> HIDE DEF n
<1>5. ASSUME NEW f \in Endpoint, Kind(m, f) = "active"
      PROVE  "Connected" \in server_seen'[f].types
  <2>1. server_seen'[f] = Seen(server_seen[f], EventsOf(m, f)) BY ZenonT(30) DEF UpdateServer
  <2>2. At(m, f).rx.pending_events \in Seq(SessionEvent)
    BY <1>5, ZenonT(30) DEF Served, OK, SessionState, RxSessionState
  <2>3. EventsOf(m, f) = At(m, f).rx.pending_events BY <1>5, <2>2, EventsView, Zenon
  <2>4. /\ server_seen[f].types \subseteq server_seen'[f].types
        /\ EventTypes(At(m, f).rx) \ {"DataReceived"} \subseteq server_seen'[f].types
    BY <2>1, <2>3, SeenTypes, Zenon
  <2> QED BY <1>5, <2>4, ZenonT(30)
<1>6. ASSUME NEW d \in net'
      PROVE  \/ d \in net
             \/ /\ d.to = "client" /\ d.endpoint \in Endpoint /\ d.packet \in Packet
                /\ Kind(manager, d.endpoint) # "none"
  <2>1. CASE d \in net BY <2>1, Zenon
  <2>2. CASE \E o \in out : d = ToClient(o[1], o[2])
    <3>1. PICK o \in out : d = ToClient(o[1], o[2]) BY <2>2, Zenon
    <3>2. d.to = "client" /\ d.endpoint = o[1] /\ d.packet = o[2] BY <3>1, FromServer
    <3> QED BY <3>2, Zenon
  <2> QED BY <2>1, <2>2, Zenon
<1>7. Typed' BY <1>1, <1>2, <1>3, <1>6, Zenon DEF HInv, Typed
<1>8. ASSUME NEW f \in Endpoint PROVE OwnNumber(f)'
  <2>1. OwnNumber(f) BY ZenonT(30) DEF HInv
  <2> QED BY <1>6, <2>1, ZenonT(30) DEF OwnNumber
<1>9. ASSUME NEW f \in Endpoint PROVE OpensAgain(f)' BY ZenonT(30) DEF HInv, OpensAgain
<1>10. ASSUME NEW f \in Endpoint PROVE Unheard(f)'
  <2>1. Unheard(f) BY Zenon DEF HInv
  <2>2. SUFFICES ASSUME clients[f].connection_state = "Closed",
                        "ConnectionClosed" \notin client_seen[f].types
                 PROVE  Kind(n, f) = "none" /\ \A d \in net' : d.endpoint # f
    BY <1>1, Zenon DEF Unheard
  <2>3. Kind(manager, f) = "none" /\ \A d \in net : d.endpoint # f
    BY <2>1, <2>2, Zenon DEF Unheard
  <2>4. Kind(n, f) = "none" BY <1>4, <2>3, Zenon
  <2> QED BY <1>6, <2>3, <2>4, Zenon
<1>11. ASSUME NEW f \in Endpoint PROVE Placed(manager', f) /\ Promoted(f)'
  <2>1. Placed(n, f) BY <1>4, Zenon DEF Placed
  <2>2. Kind(n, f) = "active" =>
          At(n, f).conn_id = clients[f].conn_id /\ "Connected" \in server_seen'[f].types
    BY <1>4, <1>5, Zenon
  <2> QED BY <1>1, <2>1, <2>2, Zenon DEF Promoted
<1>12. \A f \in Endpoint : IsClient(clients[f])' BY ZenonT(30) DEF HInv
<1> QED BY <1>7, <1>8, <1>9, <1>10, <1>11, <1>12, Zenon DEF HInv

LEMMA ServerReceiveHInv ==
  ASSUME HInv, ServerReceive
  PROVE  HInv'
<1>1. PICK d \in net :
        /\ d.to = "server"
        /\ \E id \in IF IsNewPeer(manager, d.endpoint, d.packet)
                     THEN FreeConnIds(manager) ELSE {0},
              i \in ServerInitialSeqs :
             UpdateServer(manager_on_datagram_received(
                            manager, d.endpoint, d.packet, FALSE, id, i))
  BY Zenon DEF ServerReceive
<1> DEFINE e == d.endpoint
           p == d.packet
<1>2. PICK id \in IF IsNewPeer(manager, e, p) THEN FreeConnIds(manager) ELSE {0},
           i \in ServerInitialSeqs :
             UpdateServer(manager_on_datagram_received(manager, e, p, FALSE, id, i))
  BY <1>1, ZenonT(30)
<1>3. e \in Endpoint /\ p \in Packet /\ i \in Seqs /\ FALSE \in BOOLEAN
  BY SystemAssumption, Zenon DEF HInv, Typed
<1>4. ManagerOK(manager) /\ \A f : Served(manager, f) BY Zenon DEF HInv, Typed
<1>5. p.conn_id \in {0, clients[e].conn_id} BY <1>1, <1>3, Zenon DEF HInv, OwnNumber
<1>6. ASSUME NEW f \in Endpoint PROVE Placed(manager, f) /\ Promoted(f) BY Zenon DEF HInv
<1> HIDE DEF e, p
<1> DEFINE m == manager_on_datagram_received(manager, e, p, FALSE, id, i)
<1>7. ManagerOK(m) BY <1>3, <1>4, ManagerReceiveOK, Zenon
<1>8. \A f : Served(m, f) BY <1>3, <1>4, ReceiveServed, Zenon
<1>9. /\ \A f : f # e => SameView(manager, m, f)
      /\ Receives(manager, m, e, p, FALSE, id)
  BY <1>3, <1>4, ReceiveView, Zenon
<1>10. UpdateServer(m) BY <1>2, ZenonT(30)
<1> HIDE DEF m
<1> DEFINE Fits(f) ==
             /\ Placed(m, f)
             /\ Kind(m, f) = "active" =>
                  /\ At(m, f).conn_id = clients[f].conn_id
                  /\ "Connected" \in server_seen[f].types \cup EventTypes(At(m, f).rx)
<1>11. ASSUME NEW f \in Endpoint, f # e \/ m = manager PROVE Fits(f)
  <2>1. SameView(manager, m, f) BY <1>9, <1>11, Zenon DEF SameView
  <2> QED BY <1>6, <2>1, Zenon DEF SameView, Placed, Promoted
<1>12. ASSUME NEW s0, TakesPacket(manager, e, p, id, s0),
              Identity(s0, "Server", s0.conn_id),
              Kind(manager, e) = "none" => s0.conn_id \in FreeConnIds(manager),
              Becomes(manager, m, e, on_datagram_received(s0, p, FALSE))
       PROVE  Fits(e)
  <2> DEFINE s == on_datagram_received(s0, p, FALSE)
  <2>1. OK(s0) /\ s0.conn_id # 0
    <3>1. OK(s0) BY <1>4, <1>12, TakenOK, Zenon
    <3>2. CASE Kind(manager, e) # "none"
      <4>1. s0 = At(manager, e) BY <1>12, <3>2, Zenon DEF TakesPacket
      <4>2. At(manager, e).conn_id # 0 BY <1>4, <3>2, ActiveNumber, Zenon
      <4> QED BY <3>1, <4>1, <4>2, Zenon
    <3>3. CASE Kind(manager, e) = "none"
      BY <1>12, <3>1, <3>3, Zenon DEF FreeConnIds, conn_id_is_in_use
    <3> QED BY <3>2, <3>3, Zenon
  <2>2. s.conn_id = s0.conn_id
    <3>1. Identity(s0, "Server", s0.conn_id) BY <1>12, Zenon
    <3>2. Identity(s, "Server", s0.conn_id) BY <3>1, ReceiveKeeps, Zenon
    <3> QED BY <3>2, Zenon DEF Identity
  <2>3. Kind(manager, e) # "active" => s0.connection_state # "Established"
    <3>1. CASE Kind(manager, e) = "pending"
      BY <1>3, <1>6, <1>12, <3>1, Zenon DEF TakesPacket, Placed
    <3>2. CASE Kind(manager, e) = "none"
      <4>1. PICK j \in Seqs : s0 = [NewSession("Server", j) EXCEPT !.conn_id = id]
        BY <1>12, <3>2, Zenon DEF TakesPacket
      <4> QED BY <4>1, Zenon DEF NewSession
    <3> QED BY <3>1, <3>2, Zenon DEF Kind
  <2>4. s0.connection_state # "Established" /\ s.connection_state = "Established" =>
          p.conn_id = s0.conn_id /\ "Connected" \in EventTypes(s.rx)
    BY <1>3, <1>12, <2>1, ServerEstablishes, Zenon DEF Identity
  <2> HIDE DEF s
  <2>5. Becomes(manager, m, e, s) BY <1>12, Zenon DEF s
  <2>6. CASE Kind(manager, e) = "active"
    <3>1. s0 = At(manager, e) BY <1>12, <2>6, Zenon DEF TakesPacket
    <3>2. /\ At(manager, e).conn_id = clients[e].conn_id
          /\ "Connected" \in server_seen[e].types
      BY <1>3, <1>6, <2>6, Zenon DEF Promoted
    <3> QED BY <2>2, <2>5, <2>6, <3>1, <3>2, Zenon DEF Becomes, Placed
  <2>7. CASE Kind(manager, e) # "active"
    <3>1. CASE s.connection_state = "Established" /\ ~is_terminal_state(s)
      <4>1. s.conn_id = clients[e].conn_id BY <1>5, <2>1, <2>2, <2>3, <2>4, <2>7, <3>1, Zenon
      <4> QED BY <2>3, <2>4, <2>5, <2>7, <3>1, <4>1, Zenon DEF Becomes, Placed
    <3>2. CASE s.connection_state # "Established" \/ is_terminal_state(s)
      <4>1. Kind(m, e) # "active" BY <2>5, <2>7, <3>2, Zenon DEF Becomes, is_terminal_state
      <4>2. Kind(m, e) = "pending" => At(m, e) = s /\ ~is_terminal_state(s)
        BY <2>5, Zenon DEF Becomes
      <4> QED BY <3>2, <4>1, <4>2, Zenon DEF Placed
    <3> QED BY <3>1, <3>2, Zenon
  <2> QED BY <2>6, <2>7, Zenon
<1>13. ASSUME NEW f \in Endpoint PROVE Fits(f)
  <2> HIDE DEF Fits
  <2> QED BY <1>9, <1>11, <1>12, Zenon DEF Receives
<1>14. \A f \in Endpoint : Kind(manager, f) = "none" /\ (\A k \in net : k.endpoint # f)
         => Kind(m, f) = "none"
  BY <1>9, Zenon DEF SameView, e
<1> DEFINE out == {}
<1>15. /\ net' = net \cup {ToClient(o[1], o[2]) : o \in out}
       /\ clients' = clients /\ client_seen' = client_seen
       /\ \A o \in out : o[1] \in Endpoint /\ o[2] \in Packet /\ Kind(manager, o[1]) # "none"
  BY Zenon DEF ServerReceive
<1> HIDE DEF out
<1>16. \A f \in Endpoint : Placed(m, f) BY <1>13, Zenon
<1>17. \A f \in Endpoint : Kind(m, f) = "active" =>
         /\ At(m, f).conn_id = clients[f].conn_id
         /\ "Connected" \in server_seen[f].types \cup EventTypes(At(m, f).rx)
  BY <1>13, Zenon
<1> QED BY <1>7, <1>8, <1>10, <1>14, <1>15, <1>16, <1>17, ServerStep, Zenon

\* What poll_tx returns is from the sessions that were there.
LEMMA OutboundView ==
  ASSUME NEW m, ManagerOK(m), \A f : Served(m, f), NEW clock,
         NEW o \in manager_outbound(m, clock)
  PROVE  /\ o[1] \in Endpoint /\ o[2] \in Packet /\ Kind(m, o[1]) # "none"
         /\ o[2] \in poll_tx(At(m, o[1]), clock[o[1]]).out
<1>1. \E e : \E r : /\ Kind(m, e) # "none" /\ r = poll_tx(At(m, e), clock[e])
                    /\ \E p \in r.out : o = <<e, p>>
  <2>1. CASE \E e \in DOMAIN PollPending(m, clock) :
               \E p \in PollPending(m, clock)[e].out : o = <<e, p>>
    <3>1. PICK e \in DOMAIN PollPending(m, clock) :
            \E p \in PollPending(m, clock)[e].out : o = <<e, p>>
      BY <2>1, ZenonT(30)
    <3>2. /\ e \in DOMAIN m.pending_by_endpoint
          /\ PollPending(m, clock)[e] = poll_tx(m.pending_by_endpoint[e], clock[e])
      BY Zenon DEF PollPending
    <3>3. Kind(m, e) = "pending" /\ At(m, e) = m.pending_by_endpoint[e] BY <3>2, ViewOf, Zenon
    <3> QED BY <3>1, <3>2, <3>3, Zenon
  <2>2. CASE \E e \in DOMAIN PollActive(m, clock) :
               \E p \in PollActive(m, clock)[e].out : o = <<e, p>>
    <3>1. PICK e \in DOMAIN PollActive(m, clock) :
            \E p \in PollActive(m, clock)[e].out : o = <<e, p>>
      BY <2>2, ZenonT(30)
    <3>2. /\ e \in DOMAIN m.active_conn_id_by_endpoint
          /\ PollActive(m, clock)[e] =
               poll_tx(m.active_by_conn_id[m.active_conn_id_by_endpoint[e]], clock[e])
      BY ZenonT(30) DEF PollActive
    <3>3. Kind(m, e) = "active" BY <3>2, ViewOf, ZenonT(30)
    <3>4. At(m, e) = m.active_by_conn_id[m.active_conn_id_by_endpoint[e]]
      BY <3>3, ViewActive, Zenon
    <3> QED BY <3>1, <3>2, <3>3, <3>4, Zenon
  <2> DEFINE P == PollPending(m, clock)
             A == PollActive(m, clock)
             sentP == {{<<e, p>> : p \in P[e].out} : e \in DOMAIN P}
             sentA == {{<<e, p>> : p \in A[e].out} : e \in DOMAIN A}
  <2>3. manager_outbound(m, clock) = (UNION sentP) \cup (UNION sentA)
    BY Zenon DEF manager_outbound
  <2> HIDE DEF P, A, sentP, sentA
  <2>4. (\E S \in sentP : o \in S) \/ (\E S \in sentA : o \in S)
    BY <2>3, Zenon
  <2>5. \/ \E e \in DOMAIN P : \E p \in P[e].out : o = <<e, p>>
        \/ \E e \in DOMAIN A : \E p \in A[e].out : o = <<e, p>>
    BY <2>4, Zenon DEF sentP, sentA
  <2> QED BY <2>1, <2>2, <2>5, ZenonT(30) DEF P, A
<1>2. PICK e, r : /\ Kind(m, e) # "none" /\ r = poll_tx(At(m, e), clock[e])
                  /\ \E p \in r.out : o = <<e, p>>
  BY <1>1, Zenon
<1>3. OK(At(m, e)) /\ e \in Endpoint BY <1>2, Zenon DEF Served
<1>4. r.out \subseteq Packet BY <1>2, <1>3, PollTxOK, Zenon
<1>5. PICK p \in r.out : o = <<e, p>> BY <1>2, Zenon
<1>6. o[1] = e /\ o[2] = p BY <1>5
<1> QED BY <1>2, <1>3, <1>4, <1>6, Zenon

LEMMA ServerPollHInv ==
  ASSUME HInv, NEW clock, ServerPoll(clock)
  PROVE  HInv'
<1> DEFINE m == manager_poll_tx(manager, clock)
           out == manager_outbound(manager, clock)
<1>1. /\ UpdateServer(m) /\ net' = net \cup {ToClient(o[1], o[2]) : o \in out}
      /\ clients' = clients /\ client_seen' = client_seen
  BY Zenon DEF ServerPoll
<1>2. ManagerOK(manager) /\ \A f : Served(manager, f) BY Zenon DEF HInv, Typed
<1>3. ManagerOK(m) BY <1>2, ManagerPollOK, Zenon
<1>4. \A f : Served(m, f) BY <1>2, PollServed, Zenon
<1>5. \A o \in out : o[1] \in Endpoint /\ o[2] \in Packet /\ Kind(manager, o[1]) # "none"
  BY <1>2, OutboundView, Zenon
<1> HIDE DEF out
<1>6. ASSUME NEW f \in Endpoint
      PROVE  /\ Placed(m, f)
             /\ Kind(m, f) = "active" =>
                  /\ At(m, f).conn_id = clients[f].conn_id
                  /\ "Connected" \in server_seen[f].types
             /\ Kind(manager, f) = "none" => Kind(m, f) = "none"
  <2> DEFINE s == At(manager, f)
             r == poll_tx(s, clock[f])
  <2>1. PolledView(manager, m, f, r) BY <1>2, PollView, Zenon
  <2>2. Placed(manager, f) /\ Promoted(f) BY Zenon DEF HInv
  <2>3. CASE Kind(manager, f) = "none" \/ Finished(r)
    BY <2>1, <2>3, Zenon DEF PolledView, Placed
  <2>4. CASE Kind(manager, f) # "none" /\ ~Finished(r)
    <3>1. Identity(s, "Server", s.conn_id) BY <1>2, <2>4, ViewSession, ZenonT(30) DEF SessionOf
    <3>2. r.session.conn_id = s.conn_id BY <3>1, PollKeeps, ZenonT(30) DEF Identity
    <3>3. r.session.connection_state \in {"Reset", PollMove(s)} BY <3>1, PollStep, Zenon
    <3>4. PollMove(s) = s.connection_state BY <3>1, Zenon DEF PollMove, Identity
    <3> HIDE DEF r, m
    <3> QED BY <2>1, <2>2, <2>4, <3>2, <3>3, <3>4, Zenon DEF PolledView, Placed, Promoted
  <2> QED BY <2>3, <2>4, ZenonT(30)
<1> HIDE DEF m
<1>7. \A f \in Endpoint : Placed(m, f) BY <1>6, Zenon
<1>8. \A f \in Endpoint : Kind(m, f) = "active" =>
         /\ At(m, f).conn_id = clients[f].conn_id
         /\ "Connected" \in server_seen[f].types \cup EventTypes(At(m, f).rx)
  BY <1>6, Zenon
<1>9. \A f \in Endpoint : Kind(manager, f) = "none" /\ (\A d \in net : d.endpoint # f)
        => Kind(m, f) = "none"
  BY <1>6, Zenon
<1> QED BY <1>1, <1>3, <1>4, <1>5, <1>7, <1>8, <1>9, ServerStep, Zenon

LEMMA ServerQueueHInv ==
  ASSUME Counted, HInv, NEW e \in Endpoint, ServerQueueSend(e)
  PROVE  HInv'
<1> DEFINE c == manager.active_conn_id_by_endpoint[e]
           request == ServerScript[server_next[e] + 1]
           n == manager_queue_send(manager, c, request)
<1>1. /\ manager' = n
      /\ UNCHANGED <<clients, net, client_seen, server_seen>>
  BY Zenon DEF ServerQueueSend
<1>2. request \in SendRequest
  <2> DEFINE k == server_next[e] + 1
  <2>1. ServerScript \in Seq(SendRequest) BY SystemAssumption, Zenon
  <2>2. k \in 1 .. Len(ServerScript) BY <2>1 DEF ServerQueueSend, Counted
  <2> HIDE DEF k
  <2>3. ServerScript[k] \in SendRequest BY <2>1, <2>2
  <2> QED BY <2>3, Zenon DEF k
<1> HIDE DEF request, c
<1>3. ManagerOK(manager) /\ \A f : Served(manager, f) BY Zenon DEF HInv, Typed
<1>4. ManagerOK(n) BY <1>3, ManagerQueueSendOK, Zenon
<1>5. \A f : Served(n, f) BY <1>2, <1>3, QueueServed, Zenon
<1>6. ASSUME NEW f
      PROVE  /\ Kind(n, f) = Kind(manager, f)
             /\ Kind(n, f) # "none" =>
                  /\ At(n, f).conn_id = At(manager, f).conn_id
                  /\ At(n, f).connection_state = At(manager, f).connection_state
  <2> DEFINE s == At(manager, f)
             t == queue_send(s, request)
  <2>1. /\ Kind(n, f) = Kind(manager, f)
        /\ Kind(manager, f) # "none" => At(n, f) = s \/ At(n, f) = t
    BY <1>3, QueueView
  <2>2. Kind(manager, f) # "none" =>
          t.connection_state = s.connection_state /\ t.conn_id = s.conn_id
    BY <1>3, Zenon DEF queue_send, Served, OK, SessionState
  <2> HIDE DEF n, t
  <2> QED BY <2>1, <2>2, Zenon
<1> HIDE DEF n
<1>7. Typed' BY <1>1, <1>4, <1>5, ZenonT(30) DEF HInv, Typed
<1>8. ASSUME NEW f \in Endpoint
      PROVE  OwnNumber(f)' /\ OpensAgain(f)' /\ IsClient(clients[f])'
  BY <1>1, Zenon DEF HInv, OwnNumber, OpensAgain
<1>9. ASSUME NEW f \in Endpoint PROVE Unheard(f)' BY <1>1, <1>6, ZenonT(30) DEF HInv, Unheard
<1>10. ASSUME NEW f \in Endpoint PROVE Placed(n, f) /\ Promoted(f)'
  BY <1>1, <1>6, ZenonT(30) DEF HInv, Placed, Promoted
<1> QED BY <1>1, <1>7, <1>8, <1>9, <1>10, Zenon DEF HInv

-----------------------------------------------------------------------------
LEMMA InitHInv == Init => HInv
<1> SUFFICES ASSUME Init PROVE HInv BY Zenon
<1>1. PICK i \in [Endpoint -> ClientInitialSeqs] :
        clients = [e \in Endpoint |-> NewSession("Client", i[e])]
  BY Zenon DEF Init
<1>2. /\ manager = NewManager /\ net = {}
      /\ client_seen = [e \in Endpoint |-> NothingSeen]
  BY Zenon DEF Init
<1>3. ASSUME NEW e PROVE Kind(manager, e) = "none" /\ Served(manager, e)
  BY <1>2, Zenon DEF NewManager, EmptyMap, Served, Kind
<1>4. ManagerOK(manager)
  BY <1>2, Zenon DEF NewManager, EmptyMap, ManagerOK, ManagerFields, MapsAgree, Range
<1>5. Typed BY <1>1, <1>2, <1>3, <1>4, Zenon DEF Typed
<1>6. ASSUME NEW e \in Endpoint
      PROVE  /\ IsClient(clients[e]) /\ clients[e].conn_id = 0
             /\ clients[e].tx.inflight = {}
  <2>1. clients[e] = NewSession("Client", i[e]) /\ i[e] \in Seqs
    BY <1>1, SystemAssumption, Zenon
  <2>2. OK(clients[e]) BY <2>1, NewSessionOK, Zenon DEF SessionRole
  <2> QED BY <2>1, <2>2 DEF IsClient, NewSession, TxInit
<1>7. ASSUME NEW e \in Endpoint
      PROVE  /\ OwnNumber(e) /\ OpensAgain(e) /\ Unheard(e)
             /\ Placed(manager, e) /\ Promoted(e)
  BY <1>2, <1>3, <1>6, Zenon DEF OwnNumber, Numbered, OpensAgain, Unheard, Placed, Promoted
<1> QED BY <1>5, <1>6, <1>7, Zenon DEF HInv

LEMMA NextHInv == Counted /\ HInv /\ [Next]_vars => Counted' /\ HInv'
<1> SUFFICES ASSUME Counted, HInv, [Next]_vars PROVE Counted' /\ HInv' BY Zenon
<1>1. ASSUME NEW e \in Endpoint, ClientReceive(e) PROVE HInv'
  BY <1>1, ClientReceiveHInv, Zenon
<1>2. ASSUME NEW e \in Endpoint, NEW clock, ClientPoll(e, clock) PROVE HInv'
  BY <1>2, ClientPollHInv, Zenon
<1>3. ASSUME NEW e \in Endpoint,
             ClientQueueSend(e) \/ ClientRequestClose(e) \/ ClientExit(e)
      PROVE  HInv'
  BY <1>3, ClientQuietHInv, Zenon
<1>4. ASSUME NEW e \in Endpoint, ServerQueueSend(e) PROVE HInv' BY <1>4, ServerQueueHInv, Zenon
<1>5. ASSUME ServerReceive PROVE HInv' BY <1>5, ServerReceiveHInv, Zenon
<1>6. ASSUME NEW clock, ServerPoll(clock) PROVE HInv' BY <1>6, ServerPollHInv, Zenon
<1>7. ASSUME UNCHANGED vars PROVE HInv' BY <1>7, UnchangedHInv, Zenon DEF vars
<1>8. HInv' BY <1>1, <1>2, <1>3, <1>4, <1>5, <1>6, <1>7, Zenon DEF Next
<1>9. Counted'
  <2>1. ASSUME NEW e \in Endpoint, ClientQueueSend(e) \/ ServerQueueSend(e)
        PROVE  Counted'
    <3>1. client_next[e] + 1 \in Nat /\ server_next[e] + 1 \in Nat BY DEF Counted
    <3>2. CASE ClientQueueSend(e)
      <4>1. /\ client_next' = [client_next EXCEPT ![e] = client_next[e] + 1]
            /\ server_next' = server_next
        BY <3>2, Zenon DEF ClientQueueSend, Counted
      <4> QED BY <3>1, <4>1, Zenon DEF Counted
    <3>3. CASE ServerQueueSend(e)
      <4>1. /\ server_next' = [server_next EXCEPT ![e] = server_next[e] + 1]
            /\ client_next' = client_next
        BY <3>3, Zenon DEF ServerQueueSend, Counted
      <4> QED BY <3>1, <4>1, Zenon DEF Counted
    <3> QED BY <2>1, <3>2, <3>3, Zenon
  <2>2. ASSUME UNCHANGED <<client_next, server_next>> PROVE Counted'
    BY <2>2, Zenon DEF Counted
  <2>3. \/ UNCHANGED <<client_next, server_next>>
        \/ \E e \in Endpoint : ClientQueueSend(e) \/ ServerQueueSend(e)
    BY Zenon DEF Next, vars, ClientReceive, ClientPoll, ClientRequestClose, ClientExit,
           ServerReceive, ServerPoll
  <2> QED BY <2>1, <2>2, <2>3, Zenon
<1> QED BY <1>8, <1>9, Zenon

LEMMA AlwaysHInv == Spec => [](Counted /\ HInv)
<1>1. Init => Counted BY DEF Init, Counted
<1> QED BY <1>1, InitHInv, NextHInv, PTL DEF Spec

\* IndexesAgree: the four maps of ServerSessionManager agree, whatever the
\* clients do and whatever the network does with their datagrams.
THEOREM SystemMapsAgree == Spec => []IndexesAgree
<1>1. HInv => IndexesAgree BY Zenon DEF HInv, Typed, ManagerOK, IndexesAgree
<1> QED BY <1>1, AlwaysHInv, PTL

\* HandshakeAgreement: whatever SYNs, SYN-ACKs and ACKs are lost, repeated or
\* late, a promoted session has the number that its client adopted, its client
\* has left the handshake behind (or closed the connection since), and the
\* server's application was told (try_dispatch_pending, on_datagram_received).
THEOREM HandshakesAgree == Spec => []HandshakeAgreement
<1>1. HInv => HandshakeAgreement
  <2> SUFFICES ASSUME HInv, NEW e \in DOMAIN manager.active_conn_id_by_endpoint
               PROVE  /\ clients[e].conn_id = manager.active_conn_id_by_endpoint[e]
                      /\ \/ clients[e].connection_state \notin
                              {"Closed", "HandshakeSent", "HandshakeReceived"}
                         \/ "ConnectionClosed" \in client_seen[e].types
                      /\ "Connected" \in server_seen[e].types
    BY ZenonT(30) DEF HandshakeAgreement
  <2>1. ManagerOK(manager) BY ZenonT(30) DEF HInv, Typed
  <2>2. Kind(manager, e) = "active" BY <2>1, ViewOf, ZenonT(30)
  <2>3. /\ manager.active_conn_id_by_endpoint[e] = At(manager, e).conn_id
        /\ At(manager, e).conn_id # 0
    BY <2>1, <2>2, ViewActive, ActiveNumber, Zenon
  <2>4. e \in Endpoint BY <2>2, Zenon DEF HInv, Typed, Served
  <2>5. Promoted(e) /\ OpensAgain(e) /\ IsClient(clients[e]) BY <2>4, Zenon DEF HInv
  <2> QED BY <2>2, <2>3, <2>5, ZenonT(30) DEF Promoted, OpensAgain, IsClient
<1> QED BY <1>1, AlwaysHInv, PTL
-----------------------------------------------------------------------------
\* Where delivered payloads come from. NothingInvented speaks of what the
\* applications have been handed; it is inductive once it is said as well of
\* all that may still be handed over: what the sessions queue, keep in flight
\* or hold for reordering, and what is in the network.

ClientQueued(e) == QueuedSoFar(ClientScript, client_next[e])
ServerQueued(e) == QueuedSoFar(ServerScript, server_next[e])

ClientHalf(e) ==
  /\ Sends(clients[e].tx, ConnId, ClientQueued(e))
  /\ Holds(clients[e].rx, ServerQueued(e))
  /\ client_seen[e].data \in Seq(ServerQueued(e))

ServerHalf(e) ==
  /\ Kind(manager, e) # "none" =>
       /\ Sends(At(manager, e).tx, ConnId, ServerQueued(e))
       /\ Holds(At(manager, e).rx, ClientQueued(e))
  /\ server_seen[e].data \in Seq(ClientQueued(e))

Travels(d, e) ==
  /\ d.to = "server" => Carries(d.packet, ConnId, ClientQueued(e))
  /\ d.to = "client" => Carries(d.packet, ConnId, ServerQueued(e))

Sourced(e) ==
  ClientHalf(e) /\ ServerHalf(e) /\ \A d \in net : d.endpoint = e => Travels(d, e)

LEMMA MoreSequences ==
  ASSUME NEW S, NEW T, S \subseteq T, NEW q \in Seq(S)
  PROVE  q \in Seq(T)
OBVIOUS

\* A step in which each half stays as it was, or is shown to be right again.
LEMMA SourcedStep ==
  ASSUME NEW e, Sourced(e),
         ClientQueued(e) \subseteq ClientQueued(e)',
         ServerQueued(e) \subseteq ServerQueued(e)',
         \/ clients'[e] = clients[e] /\ client_seen'[e] = client_seen[e]
         \/ ClientHalf(e)',
         \/ SameView(manager, manager', e) /\ server_seen'[e] = server_seen[e]
         \/ ServerHalf(e)',
         \A d \in net' : d.endpoint = e => d \in net \/ Travels(d, e)'
  PROVE  Sourced(e)'
<1> DEFINE C == ClientQueued(e)
           D == ClientQueued(e)'
           S == ServerQueued(e)
           T == ServerQueued(e)'
<1>1. C \subseteq D /\ S \subseteq T OBVIOUS
<1>2. /\ Sends(clients[e].tx, ConnId, C) /\ Holds(clients[e].rx, S)
      /\ client_seen[e].data \in Seq(S) /\ server_seen[e].data \in Seq(C)
      /\ Kind(manager, e) # "none" =>
           Sends(At(manager, e).tx, ConnId, S) /\ Holds(At(manager, e).rx, C)
      /\ \A d \in net : d.endpoint = e =>
           /\ d.to = "server" => Carries(d.packet, ConnId, C)
           /\ d.to = "client" => Carries(d.packet, ConnId, S)
  BY Zenon DEF Sourced, ClientHalf, ServerHalf, Travels
<1>d. /\ ClientHalf(e)' <=> /\ Sends(clients'[e].tx, ConnId, D) /\ Holds(clients'[e].rx, T)
                            /\ client_seen'[e].data \in Seq(T)
      /\ ServerHalf(e)' <=> /\ Kind(manager', e) # "none" =>
                                 /\ Sends(At(manager', e).tx, ConnId, T)
                                 /\ Holds(At(manager', e).rx, D)
                            /\ server_seen'[e].data \in Seq(D)
  BY Zenon DEF ClientHalf, ServerHalf
<1>t. ASSUME NEW d
      PROVE  Travels(d, e)' <=> /\ d.to = "server" => Carries(d.packet, ConnId, D)
                                /\ d.to = "client" => Carries(d.packet, ConnId, T)
  BY Zenon DEF Travels
<1> HIDE DEF C, D, S, T
<1>3. /\ \A p : (Carries(p, ConnId, C) => Carries(p, ConnId, D))
             /\ (Carries(p, ConnId, S) => Carries(p, ConnId, T))
      /\ \A tx : (Sends(tx, ConnId, C) => Sends(tx, ConnId, D))
              /\ (Sends(tx, ConnId, S) => Sends(tx, ConnId, T))
      /\ \A rx : (Holds(rx, C) => Holds(rx, D)) /\ (Holds(rx, S) => Holds(rx, T))
  BY <1>1, AllowsMore, Zenon
<1>4. client_seen[e].data \in Seq(T) /\ server_seen[e].data \in Seq(D)
  BY <1>1, <1>2, MoreSequences, Zenon
<1>5. ClientHalf(e)' BY <1>2, <1>3, <1>4, <1>d, Zenon
<1>6. ServerHalf(e)' BY <1>2, <1>3, <1>4, <1>d, Zenon DEF SameView
<1>7. \A d \in net' : d.endpoint = e => Travels(d, e)' BY <1>2, <1>3, <1>t, Zenon
<1> QED BY <1>5, <1>6, <1>7, Zenon DEF Sourced

\* queue_send adds the payload that it is given to what has been queued.
LEMMA QueuedMore ==
  ASSUME NEW script, NEW n \in Nat
  PROVE  /\ QueuedSoFar(script, n) \subseteq QueuedSoFar(script, n + 1)
         /\ script[n + 1].payload \in QueuedSoFar(script, n + 1)
<1>1. 1 .. n \subseteq 1 .. n + 1 /\ n + 1 \in 1 .. n + 1 OBVIOUS
<1> DEFINE m == n + 1
<1> HIDE DEF m
<1>2. 1 .. n \subseteq 1 .. m /\ m \in 1 .. m BY <1>1 DEF m
<1>3. QueuedSoFar(script, n) \subseteq QueuedSoFar(script, m) BY <1>2, Zenon DEF QueuedSoFar
<1>4. script[m].payload \in QueuedSoFar(script, m) BY <1>2, Zenon DEF QueuedSoFar
<1> QED BY <1>3, <1>4, Zenon DEF m

\* The loop that picks the reliable payloads out of the drained events.
PickPayload(q, event) ==
  IF IsReliableData(event) THEN Append(q, event.payload) ELSE q

LEMMA PayloadsLoop ==
  ASSUME NEW events, Len(events) \in Nat
  PROVE  \E g : /\ g[0] = << >>
                /\ \A k \in 1 .. Len(events) : g[k] = PickPayload(g[k - 1], events[k])
                /\ ReliablePayloads(events) = g[Len(events)]
<1> DEFINE N == Len(events)
           Fits(n, g) == /\ g[0] = << >>
                         /\ \A k \in 1 .. n : g[k] = PickPayload(g[k - 1], events[k])
           Body(g) == [k \in 0 .. N |->
                         IF k = 0 THEN << >> ELSE PickPayload(g[k - 1], events[k])]
           after == CHOOSE g : g = Body(g)
<1> HIDE DEF N
<1>1. N \in Nat BY Zenon DEF N
<1>2. \A n \in 0 .. N : \E g : Fits(n, g)
  <2> DEFINE S == {n \in 0 .. N : \E g : Fits(n, g)}
  <2>1. 0 \in S
    <3> DEFINE g == [k \in {0} |-> << >>]
    <3>1. Fits(0, g) BY <1>1
    <3>2. 0 \in 0 .. N BY <1>1
    <3> QED BY <3>1, <3>2, Zenon
  <2>2. ASSUME NEW n \in 1 .. N, n - 1 \in S PROVE n \in S
    <3>1. PICK g : Fits(n - 1, g) BY <2>2, Zenon
    <3> DEFINE last == PickPayload(g[n - 1], events[n])
               h == [k \in 0 .. n |-> IF k = n THEN last ELSE g[k]]
    <3>2. n \in Nat /\ n \in 0 .. N /\ n # 0 BY <1>1
    <3>3. h[0] = << >> BY <3>1, <3>2
    <3>4. ASSUME NEW k \in 1 .. n PROVE h[k] = PickPayload(h[k - 1], events[k])
      <4>1. k - 1 \in 0 .. n /\ k - 1 # n /\ k \in 0 .. n BY <3>2
      <4>2. h[k - 1] = g[k - 1] BY <4>1, Zenon
      <4>3. CASE k = n BY <4>1, <4>2, <4>3, Zenon
      <4>4. CASE k # n
        <5>1. k \in 1 .. n - 1 BY <3>2, <4>4
        <5> QED BY <3>1, <4>1, <4>2, <4>4, <5>1, Zenon
      <4> QED BY <4>3, <4>4, Zenon
    <3> QED BY <3>2, <3>3, <3>4, Zenon
  <2> HIDE DEF S
  <2>3. \A n \in 0 .. N : n \in S BY <1>1, <2>1, <2>2, Rounds, Zenon
  <2> QED BY <2>3, Zenon DEF S
<1>n. N \in 0 .. N BY <1>1
<1>3. PICK g : Fits(N, g) BY <1>2, <1>n, Zenon
<1> DEFINE h == [k \in 0 .. N |-> g[k]]
<1>4. h = Body(h)
  <2>1. ASSUME NEW k \in 0 .. N PROVE h[k] = Body(h)[k]
    <3>1. CASE k = 0 BY <1>3, <3>1, Zenon
    <3>2. CASE k # 0
      <4>1. k \in 1 .. N /\ k - 1 \in 0 .. N BY <1>1, <3>2
      <4>2. h[k] = g[k] /\ h[k - 1] = g[k - 1] /\ g[k] = PickPayload(g[k - 1], events[k])
        BY <1>3, <4>1, Zenon
      <4> QED BY <3>2, <4>2, Zenon
    <3> QED BY <3>1, <3>2, Zenon
  <2> HIDE DEF Fits
  <2> QED BY <2>1, Zenon
<1>5. after = Body(after) BY <1>4, Zenon
<1>6. ReliablePayloads(events) = after[N] BY Zenon DEF ReliablePayloads, PickPayload, N
<1> HIDE DEF after
<1>7. after[0] = << >> BY <1>1, <1>5
<1>8. ASSUME NEW k \in 1 .. N PROVE after[k] = PickPayload(after[k - 1], events[k])
  BY <1>1, <1>5
<1> QED BY <1>6, <1>7, <1>8, Zenon DEF N

\* A history grows by what the receive half held.
LEMMA SeenData ==
  ASSUME NEW S, NEW log, log.data \in Seq(S),
         NEW rx, rx.pending_events \in Seq(SessionEvent), Holds(rx, S)
  PROVE  Seen(log, rx.pending_events).data \in Seq(S)
<1> DEFINE events == rx.pending_events
           N == Len(events)
<1>1. N \in Nat /\ DOMAIN events = 1 .. N OBVIOUS
<1>2. ASSUME NEW k \in 1 .. N, IsReliableData(events[k]) PROVE events[k].payload \in S
  <2>1. events[k] \in Items(events) BY <1>1, Zenon DEF Items
  <2> QED BY <1>2, <2>1, Zenon DEF Holds, IsReliableData
<1> HIDE DEF events, N
<1>3. PICK g : /\ g[0] = << >>
               /\ \A k \in 1 .. N : g[k] = PickPayload(g[k - 1], events[k])
               /\ ReliablePayloads(events) = g[N]
  BY <1>1, PayloadsLoop, Zenon DEF N
<1> DEFINE R == {k \in 0 .. N : g[k] \in Seq(S)}
<1>4. 0 \in R
  <2>1. << >> \in Seq(S) /\ 0 \in 0 .. N BY <1>1
  <2> QED BY <1>3, <2>1, Zenon
<1>5. ASSUME NEW k \in 1 .. N, k - 1 \in R PROVE k \in R
  <2>1. g[k - 1] \in Seq(S) /\ g[k] = PickPayload(g[k - 1], events[k]) BY <1>3, <1>5, Zenon
  <2>2. CASE IsReliableData(events[k])
    <3>1. g[k] = Append(g[k - 1], events[k].payload) BY <2>1, <2>2, Zenon DEF PickPayload
    <3>2. events[k].payload \in S BY <1>2, <2>2, Zenon
    <3>3. g[k] \in Seq(S) BY <2>1, <3>1, <3>2
    <3> QED BY <1>1, <3>3
  <2>3. CASE ~IsReliableData(events[k])
    <3>1. g[k] \in Seq(S) BY <2>1, <2>3, Zenon DEF PickPayload
    <3> QED BY <1>1, <3>1
  <2> QED BY <2>2, <2>3, Zenon
<1> HIDE DEF R
<1>6. \A k \in 0 .. N : k \in R BY <1>1, <1>4, <1>5, Rounds, Zenon
<1>7. N \in R BY <1>1, <1>6
<1>8. ReliablePayloads(events) \in Seq(S) BY <1>3, <1>7, Zenon DEF R
<1>9. log.data \o ReliablePayloads(events) \in Seq(S) BY <1>8
<1> QED BY <1>9, Zenon DEF Seen, events

LEMMA NothingQueued ==
  ASSUME NEW e, client_next' = client_next, server_next' = server_next
  PROVE  ClientQueued(e)' = ClientQueued(e) /\ ServerQueued(e)' = ServerQueued(e)
  BY Zenon DEF ClientQueued, ServerQueued

\* The client's application drains the events of its session s.
LEMMA ClientUpdated ==
  ASSUME HInv, NEW e \in Endpoint, NEW s, IsClient(s), UpdateClient(e, s),
         client_next' = client_next, server_next' = server_next, Sourced(e),
         Sends(s.tx, ConnId, ClientQueued(e)), Holds(s.rx, ServerQueued(e))
  PROVE  /\ ClientHalf(e)'
         /\ \A f \in Endpoint : f # e =>
              clients'[f] = clients[f] /\ client_seen'[f] = client_seen[f]
<1> DEFINE t == [s EXCEPT !.rx = drain_events(@)]
           S == ServerQueued(e)
<1>1. DOMAIN clients = Endpoint /\ DOMAIN client_seen = Endpoint BY Zenon DEF HInv, Typed
<1>2. t.tx = s.tx /\ t.rx = drain_events(s.rx) BY Zenon DEF IsClient, OK, SessionState
<1>3. /\ clients' = [clients EXCEPT ![e] = t]
      /\ client_seen' = [client_seen EXCEPT ![e] = Seen(@, s.rx.pending_events)]
  BY Zenon DEF UpdateClient
<1> HIDE DEF t
<1>4. /\ clients'[e] = t /\ client_seen'[e] = Seen(client_seen[e], s.rx.pending_events)
      /\ \A f \in Endpoint : f # e =>
           clients'[f] = clients[f] /\ client_seen'[f] = client_seen[f]
  BY <1>1, <1>3, Zenon
<1>5. s.rx \in RxSessionState /\ s.rx.pending_events \in Seq(SessionEvent)
  BY Zenon DEF IsClient, OK, SessionState, RxSessionState
<1>6. client_seen[e].data \in Seq(S) BY Zenon DEF Sourced, ClientHalf
<1>7. Holds(s.rx, S) BY Zenon
<1>8. ClientQueued(e)' = ClientQueued(e) /\ ServerQueued(e)' = S BY NothingQueued, Zenon
<1> HIDE DEF S
<1>9. Holds(t.rx, S) BY <1>2, <1>5, <1>7, DrainHolds, Zenon
<1>10. client_seen'[e].data \in Seq(S) BY <1>4, <1>5, <1>6, <1>7, SeenData, Zenon
<1>11. Sends(t.tx, ConnId, ClientQueued(e)) BY <1>2, Zenon
<1>12. ClientHalf(e)' BY <1>4, <1>8, <1>9, <1>10, <1>11, Zenon DEF ClientHalf
<1> QED BY <1>4, <1>12, Zenon

LEMMA ClientReceiveSourced ==
  ASSUME HInv, NEW e \in Endpoint, ClientReceive(e), \A f \in Endpoint : Sourced(f),
         NEW f \in Endpoint
  PROVE  Sourced(f)'
<1>1. PICK d \in net, lingering \in BOOLEAN :
        /\ d.to = "client" /\ d.endpoint = e
        /\ UpdateClient(e, on_datagram_received(clients[e], d.packet, lingering))
  BY Zenon DEF ClientReceive
<1> DEFINE s == clients[e]
           p == d.packet
           t == on_datagram_received(s, p, lingering)
<1>2. /\ UNCHANGED <<manager, net, client_next, server_next, server_seen>>
      /\ Sourced(e) /\ Sourced(f) /\ IsClient(s) /\ p \in Packet
  BY Zenon DEF ClientReceive, HInv, Typed
<1>3. Carries(p, ConnId, ServerQueued(e)) BY <1>1, <1>2, Zenon DEF Sourced, Travels
<1>4. isReliableChannel(p.channel_type) => p.payload \in ServerQueued(e)
  BY <1>3, Zenon DEF Carries
<1>5. Sends(s.tx, ConnId, ClientQueued(e)) /\ Holds(s.rx, ServerQueued(e))
  BY <1>2, Zenon DEF Sourced, ClientHalf
<1>6. Sends(t.tx, ConnId, ClientQueued(e)) BY <1>2, <1>5, ReceiveSends, Zenon DEF IsClient
<1>7. Holds(t.rx, ServerQueued(e)) BY <1>2, <1>4, <1>5, ReceiveHolds, Zenon DEF IsClient
<1>8. IsClient(t)
  <2>1. OK(t) BY <1>2, OnDatagramOK, Zenon DEF IsClient
  <2>2. t.role = "Client" /\ t.connection_state # "HandshakeReceived"
    BY <1>2, ClientReceives, ZenonT(30) DEF IsClient
  <2> QED BY <2>1, <2>2, Zenon DEF IsClient
<1>9. UpdateClient(e, t) BY <1>1, Zenon
<1> HIDE DEF t
<1>10. /\ ClientHalf(e)'
       /\ f # e => clients'[f] = clients[f] /\ client_seen'[f] = client_seen[f]
  BY <1>2, <1>6, <1>7, <1>8, <1>9, ClientUpdated, Zenon
<1>11. ClientQueued(f)' = ClientQueued(f) /\ ServerQueued(f)' = ServerQueued(f)
  BY <1>2, NothingQueued, Zenon
<1>12. SameView(manager, manager', f) /\ server_seen'[f] = server_seen[f]
  BY <1>2, Zenon DEF SameView
<1>13. \A c \in net' : c \in net BY <1>2, Zenon
<1> QED BY <1>2, <1>10, <1>11, <1>12, <1>13, SourcedStep, ZenonT(30)

LEMMA ClientPollSourced ==
  ASSUME HInv, NEW e \in Endpoint, NEW clock, ClientPoll(e, clock),
         \A f \in Endpoint : Sourced(f), NEW f \in Endpoint
  PROVE  Sourced(f)'
<1> DEFINE s == clients[e]
           r == poll_tx(s, clock)
           t == r.session
<1>1. /\ UpdateClient(e, t) /\ net' = net \cup {ToServer(e, p) : p \in r.out}
      /\ UNCHANGED <<manager, client_next, server_next, server_seen>>
  BY Zenon DEF ClientPoll
<1>2. Sourced(e) /\ Sourced(f) /\ IsClient(s) BY Zenon DEF HInv
<1>3. OK(s) /\ Identity(s, "Client", s.conn_id) /\ s.conn_id \in ConnId
  BY <1>2, Zenon DEF IsClient, OK, SessionState, Identity, SessionFields
<1>4. Sends(s.tx, ConnId, ClientQueued(e)) /\ Holds(s.rx, ServerQueued(e))
  BY <1>2, Zenon DEF Sourced, ClientHalf
<1>5. Sends(t.tx, ConnId, ClientQueued(e)) /\ Labelled(r.out, ConnId, ClientQueued(e))
  BY <1>3, <1>4, PollSends, Zenon
<1>6. Holds(t.rx, ServerQueued(e)) BY <1>3, <1>4, PollHolds, Zenon
<1>7. IsClient(t)
  <2>1. OK(t) BY <1>3, PollTxOK, Zenon
  <2>2. Identity(t, "Client", s.conn_id) BY <1>3, PollKeeps, Zenon
  <2>3. t.connection_state \in {"Reset", PollMove(s)} BY <1>3, PollStep, Zenon
  <2> HIDE DEF r
  <2> QED BY <1>2, <2>1, <2>2, <2>3, Zenon DEF IsClient, Identity, PollMove
<1> HIDE DEF r
<1>8. /\ ClientHalf(e)'
      /\ f # e => clients'[f] = clients[f] /\ client_seen'[f] = client_seen[f]
  BY <1>1, <1>2, <1>5, <1>6, <1>7, ClientUpdated, Zenon
<1>9. ClientQueued(f)' = ClientQueued(f) /\ ServerQueued(f)' = ServerQueued(f)
  BY <1>1, NothingQueued, Zenon
<1>10. ASSUME NEW d \in net', d.endpoint = f PROVE d \in net \/ Travels(d, f)'
  <2>1. CASE d \in net BY <2>1, Zenon
  <2>2. CASE \E p \in r.out : d = ToServer(e, p)
    <3>1. PICK p \in r.out : d = ToServer(e, p) BY <2>2, Zenon
    <3>2. d.to = "server" /\ d.endpoint = e /\ d.packet = p BY <3>1, FromClient
    <3>3. Carries(p, ConnId, ClientQueued(e)) BY <1>5, <3>1, Zenon DEF Labelled
    <3>4. f = e /\ d.to # "client" BY <1>10, <3>2, Zenon
    <3> QED BY <1>9, <3>2, <3>3, <3>4, Zenon DEF Travels
  <2> QED BY <1>1, <2>1, <2>2, Zenon
<1>11. SameView(manager, manager', f) /\ server_seen'[f] = server_seen[f]
  BY <1>1, Zenon DEF SameView
<1> QED BY <1>2, <1>8, <1>9, <1>10, <1>11, SourcedStep, ZenonT(30)

LEMMA ClientQuietSourced ==
  ASSUME Counted, HInv, NEW e \in Endpoint,
         ClientQueueSend(e) \/ ClientRequestClose(e) \/ ClientExit(e),
         \A f \in Endpoint : Sourced(f), NEW f \in Endpoint
  PROVE  Sourced(f)'
<1> DEFINE s == clients[e]
<1>1. /\ UNCHANGED <<manager, net, server_next, client_seen, server_seen>>
      /\ Sourced(e) /\ Sourced(f) /\ IsClient(s)
      /\ DOMAIN clients = Endpoint
      /\ client_next \in [Endpoint -> Nat]
  BY Zenon DEF ClientQueueSend, ClientRequestClose, ClientExit, HInv, Typed, Counted
<1>2. /\ SameView(manager, manager', f) /\ server_seen'[f] = server_seen[f]
      /\ \A d \in net' : d \in net
      /\ ServerQueued(f)' = ServerQueued(f)
  BY <1>1, Zenon DEF SameView, ServerQueued
<1>3. /\ Sends(s.tx, ConnId, ClientQueued(e)) /\ Holds(s.rx, ServerQueued(e))
      /\ client_seen[e].data \in Seq(ServerQueued(e))
  BY <1>1, Zenon DEF Sourced, ClientHalf
<1>4. ASSUME NEW t, clients' = [clients EXCEPT ![e] = t], t.rx = s.rx,
             Sends(t.tx, ConnId, ClientQueued(e)'),
             ClientQueued(f) \subseteq ClientQueued(f)'
      PROVE  Sourced(f)'
  <2>1. clients'[e] = t /\ (f # e => clients'[f] = clients[f]) BY <1>1, <1>4, Zenon
  <2>2. CASE f = e
    <3>1. ClientHalf(f)' BY <1>1, <1>2, <1>3, <1>4, <2>1, <2>2, Zenon DEF ClientHalf
    <3> QED BY <1>1, <1>2, <1>4, <3>1, SourcedStep, ZenonT(30)
  <2>3. CASE f # e
    <3>1. clients'[f] = clients[f] /\ client_seen'[f] = client_seen[f]
      BY <1>1, <2>1, <2>3, Zenon
    <3> QED BY <1>1, <1>2, <1>4, <3>1, SourcedStep, ZenonT(30)
  <2> QED BY <2>2, <2>3, Zenon
<1>5. CASE ClientQueueSend(e)
  <2>1. PICK n \in Nat : n = client_next[e] BY <1>1, Zenon
  <2> DEFINE request == ClientScript[n + 1]
             t == queue_send(s, request)
  <2>2. /\ clients' = [clients EXCEPT ![e] = t]
        /\ client_next' = [client_next EXCEPT ![e] = n + 1]
    BY <1>1, <1>5, <2>1, Zenon DEF ClientQueueSend
  <2>3. /\ ClientQueued(e) = QueuedSoFar(ClientScript, n)
        /\ ClientQueued(e)' = QueuedSoFar(ClientScript, n + 1)
        /\ f # e => ClientQueued(f)' = ClientQueued(f)
    BY <1>1, <2>1, <2>2, Zenon DEF ClientQueued
  <2> DEFINE C == QueuedSoFar(ClientScript, n)
             D == QueuedSoFar(ClientScript, n + 1)
  <2>4. C \subseteq D /\ request.payload \in D /\ Sends(s.tx, ConnId, C)
    BY <1>3, <2>3, QueuedMore, Zenon
  <2> HIDE DEF request, C, D
  <2>5. Sends(s.tx, ConnId, D)
    <3>1. \A tx : Sends(tx, ConnId, C) => Sends(tx, ConnId, D) BY <2>4, AllowsMore, Zenon
    <3> QED BY <2>4, <3>1, Zenon
  <2>6. OK(s) BY <1>1, Zenon DEF IsClient
  <2>7. Sends(t.tx, ConnId, D) /\ t.rx = s.rx BY <2>4, <2>5, <2>6, QueueSends, Zenon
  <2>8. ClientQueued(e)' = D /\ ClientQueued(f) \subseteq ClientQueued(f)'
    BY <2>3, <2>4, Zenon DEF C, D
  <2> HIDE DEF t
  <2> QED BY <1>4, <2>2, <2>7, <2>8, Zenon
<1>6. CASE ClientRequestClose(e)
  <2> DEFINE t == request_close(s)
  <2>1. clients' = [clients EXCEPT ![e] = t] /\ client_next' = client_next
    BY <1>1, <1>6, Zenon DEF ClientRequestClose
  <2>2. \A g : ClientQueued(g)' = ClientQueued(g) BY <2>1, Zenon DEF ClientQueued
  <2>3. Sends(t.tx, ConnId, ClientQueued(e)) /\ t.rx = s.rx
    BY <1>1, <1>3, RequestCloseSends, Zenon DEF IsClient
  <2> HIDE DEF t
  <2> QED BY <1>4, <2>1, <2>2, <2>3, Zenon
<1>7. CASE ClientExit(e)
  <2>1. clients' = clients /\ client_next' = client_next BY <1>7, Zenon DEF ClientExit
  <2>2. ClientQueued(f)' = ClientQueued(f) BY <2>1, Zenon DEF ClientQueued
  <2>3. clients'[f] = clients[f] /\ client_seen'[f] = client_seen[f] BY <1>1, <2>1, Zenon
  <2> QED BY <1>1, <1>2, <2>2, <2>3, SourcedStep, ZenonT(30)
<1> QED BY <1>5, <1>6, <1>7, Zenon

\* The server's application drains the events of m's sessions.
LEMMA ServerUpdated ==
  ASSUME NEW m, ManagerOK(m), NEW e \in Endpoint, Served(m, e), UpdateServer(m),
         client_next' = client_next, server_next' = server_next, Sourced(e),
         Kind(m, e) # "none" =>
           /\ Sends(At(m, e).tx, ConnId, ServerQueued(e))
           /\ Holds(At(m, e).rx, ClientQueued(e))
  PROVE  ServerHalf(e)'
<1> DEFINE n == manager_drain_events(m)
           s == At(m, e)
           t == [s EXCEPT !.rx = drain_events(@)]
           C == ClientQueued(e)
<1>1. /\ manager' = n
      /\ server_seen'[e] = Seen(server_seen[e], EventsOf(m, e))
  BY ZenonT(30) DEF UpdateServer
<1>2. Kind(n, e) = Kind(m, e) /\ (Kind(m, e) # "none" => At(n, e) = t) BY DrainView, Zenon
<1>3. server_seen[e].data \in Seq(C) BY Zenon DEF Sourced, ServerHalf
<1>4. ClientQueued(e)' = C /\ ServerQueued(e)' = ServerQueued(e) BY NothingQueued, Zenon
<1>5. Kind(m, e) # "none" =>
        /\ OK(s) /\ s.rx \in RxSessionState /\ s.rx.pending_events \in Seq(SessionEvent)
        /\ t.tx = s.tx /\ t.rx = drain_events(s.rx)
  BY Zenon DEF Served, OK, SessionState, RxSessionState
<1>6. EventsOf(m, e) = IF Kind(m, e) = "none" THEN << >> ELSE s.rx.pending_events
  BY <1>5, EventsView, Zenon
<1>7. Kind(m, e) # "none" => Holds(s.rx, C) OBVIOUS
<1> HIDE DEF n, t, s, C
<1>8. CASE Kind(m, e) # "none"
  <2>1. Holds(t.rx, C) BY <1>5, <1>7, <1>8, DrainHolds, Zenon
  <2>2. server_seen'[e].data \in Seq(C)
    BY <1>1, <1>3, <1>5, <1>6, <1>7, <1>8, SeenData, Zenon
  <2>3. Sends(t.tx, ConnId, ServerQueued(e)) BY <1>5, <1>8, Zenon DEF s
  <2> QED BY <1>1, <1>2, <1>4, <1>8, <2>1, <2>2, <2>3, Zenon DEF ServerHalf
<1>9. CASE Kind(m, e) = "none"
  <2> DEFINE rx == [pending_events |-> << >>, ordered_reorder_buffer |-> {}]
  <2>1. /\ rx.pending_events = << >> /\ rx.pending_events \in Seq(SessionEvent)
        /\ rx.ordered_reorder_buffer = {}
    OBVIOUS
  <2>2. Items(<< >>) = {} BY DEF Items
  <2> HIDE DEF rx
  <2>3. Holds(rx, C) BY <2>1, <2>2, Zenon DEF Holds
  <2>4. server_seen'[e] = Seen(server_seen[e], rx.pending_events) BY <1>1, <1>6, <1>9, <2>1, Zenon
  <2>5. server_seen'[e].data \in Seq(C) BY <1>3, <2>1, <2>3, <2>4, SeenData, Zenon
  <2> QED BY <1>1, <1>2, <1>4, <1>9, <2>5, Zenon DEF ServerHalf
<1> QED BY <1>8, <1>9, Zenon

LEMMA ServerReceiveSourced ==
  ASSUME HInv, ServerReceive, \A f \in Endpoint : Sourced(f), NEW f \in Endpoint
  PROVE  Sourced(f)'
<1>1. PICK d \in net :
        /\ d.to = "server"
        /\ \E id \in IF IsNewPeer(manager, d.endpoint, d.packet)
                     THEN FreeConnIds(manager) ELSE {0},
              i \in ServerInitialSeqs :
             UpdateServer(manager_on_datagram_received(
                            manager, d.endpoint, d.packet, FALSE, id, i))
  BY Zenon DEF ServerReceive
<1> DEFINE e == d.endpoint
           p == d.packet
<1>2. PICK id \in IF IsNewPeer(manager, e, p) THEN FreeConnIds(manager) ELSE {0},
           i \in ServerInitialSeqs :
             UpdateServer(manager_on_datagram_received(manager, e, p, FALSE, id, i))
  BY <1>1, ZenonT(30)
<1>3. e \in Endpoint /\ p \in Packet /\ i \in Seqs /\ FALSE \in BOOLEAN
  BY SystemAssumption, Zenon DEF HInv, Typed
<1>4. ManagerOK(manager) /\ \A g : Served(manager, g) BY Zenon DEF HInv, Typed
<1>5. Sourced(e) /\ Sourced(f) BY <1>3, Zenon
<1>6. isReliableChannel(p.channel_type) => p.payload \in ClientQueued(e)
  BY <1>1, <1>5, Zenon DEF Sourced, Travels, Carries
<1>7. ASSUME NEW g \in Endpoint, Kind(manager, g) # "none"
      PROVE  /\ Sends(At(manager, g).tx, ConnId, ServerQueued(g))
             /\ Holds(At(manager, g).rx, ClientQueued(g))
  BY <1>7, Zenon DEF Sourced, ServerHalf
<1> HIDE DEF e, p
<1> DEFINE m == manager_on_datagram_received(manager, e, p, FALSE, id, i)
<1>8. ManagerOK(m) BY <1>3, <1>4, ManagerReceiveOK, Zenon
<1>9. \A g : Served(m, g) BY <1>3, <1>4, ReceiveServed, Zenon
<1>10. /\ \A g : g # e => SameView(manager, m, g)
       /\ Receives(manager, m, e, p, FALSE, id)
  BY <1>3, <1>4, ReceiveView, Zenon
<1>11. UpdateServer(m) BY <1>2, ZenonT(30)
<1> HIDE DEF m
<1> DEFINE Right(g) == Kind(m, g) # "none" =>
                         /\ Sends(At(m, g).tx, ConnId, ServerQueued(g))
                         /\ Holds(At(m, g).rx, ClientQueued(g))
<1>12. ASSUME f # e \/ m = manager PROVE Right(f)
  <2>1. SameView(manager, m, f) BY <1>10, <1>12, Zenon DEF SameView
  <2> QED BY <1>7, <2>1, Zenon DEF SameView
<1>13. ASSUME NEW s0, TakesPacket(manager, e, p, id, s0),
              Kind(manager, e) = "none" => s0.conn_id \in FreeConnIds(manager),
              Becomes(manager, m, e, on_datagram_received(s0, p, FALSE))
       PROVE  Right(e)
  <2> DEFINE s == on_datagram_received(s0, p, FALSE)
  <2>1. OK(s0) BY <1>4, <1>13, TakenOK, Zenon
  <2>2. Sends(s0.tx, ConnId, ServerQueued(e)) /\ Holds(s0.rx, ClientQueued(e))
    <3>1. CASE Kind(manager, e) # "none"
      <4>1. s0 = At(manager, e) BY <1>13, <3>1, Zenon DEF TakesPacket
      <4> QED BY <1>3, <1>7, <3>1, <4>1, Zenon
    <3>2. CASE Kind(manager, e) = "none"
      <4>1. PICK j \in Seqs : s0 = [NewSession("Server", j) EXCEPT !.conn_id = id]
        BY <1>13, <3>2, Zenon DEF TakesPacket
      <4>2. s0.tx = NewSession("Server", j).tx /\ s0.rx = NewSession("Server", j).rx
        BY <4>1, Zenon DEF NewSession
      <4> QED BY <4>2, NewSends, Zenon
    <3> QED BY <3>1, <3>2, Zenon
  <2>3. Sends(s.tx, ConnId, ServerQueued(e)) BY <1>3, <2>1, <2>2, ReceiveSends, Zenon
  <2>4. Holds(s.rx, ClientQueued(e)) BY <1>3, <1>6, <2>1, <2>2, ReceiveHolds, Zenon
  <2> HIDE DEF s
  <2>5. Becomes(manager, m, e, s) BY <1>13, Zenon DEF s
  <2>6. Kind(m, e) # "none" => At(m, e) = s BY <2>5, Zenon DEF Becomes
  <2> QED BY <2>3, <2>4, <2>6, Zenon
<1>14. Right(f)
  <2> HIDE DEF Right
  <2> QED BY <1>10, <1>12, <1>13, Zenon DEF Receives
<1>15. UNCHANGED <<clients, net, client_next, server_next, client_seen>>
  BY Zenon DEF ServerReceive
<1>16. ServerHalf(f)' BY <1>5, <1>8, <1>9, <1>11, <1>14, <1>15, ServerUpdated, Zenon
<1>17. ClientQueued(f)' = ClientQueued(f) /\ ServerQueued(f)' = ServerQueued(f)
  BY <1>15, NothingQueued, Zenon
<1>18. clients'[f] = clients[f] /\ client_seen'[f] = client_seen[f] BY <1>15, Zenon
<1>19. \A c \in net' : c \in net BY <1>15, Zenon
<1> QED BY <1>5, <1>16, <1>17, <1>18, <1>19, SourcedStep, ZenonT(30)

LEMMA ServerPollSourced ==
  ASSUME HInv, NEW clock, ServerPoll(clock), \A f \in Endpoint : Sourced(f),
         NEW f \in Endpoint
  PROVE  Sourced(f)'
<1> DEFINE m == manager_poll_tx(manager, clock)
           out == manager_outbound(manager, clock)
<1>1. /\ UpdateServer(m) /\ net' = net \cup {ToClient(o[1], o[2]) : o \in out}
      /\ UNCHANGED <<clients, client_next, server_next, client_seen>>
  BY Zenon DEF ServerPoll
<1>2. ManagerOK(manager) /\ \A g : Served(manager, g) BY Zenon DEF HInv, Typed
<1>3. ManagerOK(m) BY <1>2, ManagerPollOK, Zenon
<1>4. \A g : Served(m, g) BY <1>2, PollServed, Zenon
<1>5. Sourced(f) BY Zenon
<1> DEFINE s == At(manager, f)
           r == poll_tx(s, clock[f])
<1>6. ASSUME Kind(manager, f) # "none"
      PROVE  /\ Sends(r.session.tx, ConnId, ServerQueued(f))
             /\ Holds(r.session.rx, ClientQueued(f))
             /\ Labelled(r.out, ConnId, ServerQueued(f))
  <2>1. Sends(s.tx, ConnId, ServerQueued(f)) /\ Holds(s.rx, ClientQueued(f))
    BY <1>5, <1>6, Zenon DEF Sourced, ServerHalf
  <2>2. OK(s) /\ s.conn_id \in ConnId BY <1>2, <1>6, Zenon DEF Served, OK, SessionState
  <2>3. /\ Sends(r.session.tx, ConnId, ServerQueued(f))
        /\ Labelled(r.out, ConnId, ServerQueued(f))
    BY <2>1, <2>2, PollSends, Zenon
  <2>4. Holds(r.session.rx, ClientQueued(f)) BY <2>1, <2>2, PollHolds, Zenon
  <2> QED BY <2>3, <2>4, Zenon
<1>7. PolledView(manager, m, f, r) BY <1>2, PollView, Zenon
<1>8. ASSUME NEW o \in out, o[1] = f
      PROVE  Kind(manager, f) # "none" /\ o[2] \in r.out
  <2>1. /\ Kind(manager, o[1]) # "none"
        /\ o[2] \in poll_tx(At(manager, o[1]), clock[o[1]]).out
    BY <1>2, OutboundView, Zenon
  <2> QED BY <1>8, <2>1, Zenon
<1> HIDE DEF m, out, r
<1>9. Kind(m, f) # "none" =>
        /\ Sends(At(m, f).tx, ConnId, ServerQueued(f))
        /\ Holds(At(m, f).rx, ClientQueued(f))
  BY <1>6, <1>7, Zenon DEF PolledView
<1>10. ServerHalf(f)' BY <1>1, <1>3, <1>4, <1>5, <1>9, ServerUpdated, Zenon
<1>11. ClientQueued(f)' = ClientQueued(f) /\ ServerQueued(f)' = ServerQueued(f)
  BY <1>1, NothingQueued, Zenon
<1>12. ASSUME NEW d \in net', d.endpoint = f PROVE d \in net \/ Travels(d, f)'
  <2>1. CASE d \in net BY <2>1, Zenon
  <2>2. CASE \E o \in out : d = ToClient(o[1], o[2])
    <3>1. PICK o \in out : d = ToClient(o[1], o[2]) BY <2>2, Zenon
    <3>2. d.to = "client" /\ d.endpoint = o[1] /\ d.packet = o[2] BY <3>1, FromServer
    <3>3. o[1] = f BY <1>12, <3>2, Zenon
    <3>4. Carries(d.packet, ConnId, ServerQueued(f))
      BY <1>6, <1>8, <3>2, <3>3, Zenon DEF Labelled
    <3>5. d.to # "server" BY <3>2, Zenon
    <3> QED BY <1>11, <3>4, <3>5, Zenon DEF Travels
  <2> QED BY <1>1, <2>1, <2>2, Zenon
<1>13. clients'[f] = clients[f] /\ client_seen'[f] = client_seen[f] BY <1>1, Zenon
<1> QED BY <1>5, <1>10, <1>11, <1>12, <1>13, SourcedStep, ZenonT(30)

\* queue_send on the number of e's session leaves the others alone.
LEMMA QueueOthers ==
  ASSUME NEW m, ManagerOK(m), NEW e, Kind(m, e) = "active", NEW request, NEW f, f # e
  PROVE  SameView(m, manager_queue_send(m, m.active_conn_id_by_endpoint[e], request), f)
<1> DEFINE c == m.active_conn_id_by_endpoint[e]
           n == manager_queue_send(m, c, request)
           A == [m.active_by_conn_id EXCEPT ![c] = queue_send(@, request)]
<1>1. c \in DOMAIN m.active_by_conn_id BY ViewActive, Zenon
<1>2. /\ n.pending_by_endpoint = m.pending_by_endpoint
      /\ n.active_by_conn_id = A
      /\ n.active_conn_id_by_endpoint = m.active_conn_id_by_endpoint
  BY <1>1, Zenon DEF manager_queue_send, ManagerOK, ManagerFields
<1>3. Kind(n, f) = Kind(m, f) BY <1>2, Zenon DEF Kind
<1>4. CASE Kind(m, f) = "active"
  <2> DEFINE b == m.active_conn_id_by_endpoint[f]
  <2>1. b # c /\ b \in DOMAIN m.active_by_conn_id
    <3>1. f \in DOMAIN m.active_conn_id_by_endpoint /\ e \in DOMAIN m.active_conn_id_by_endpoint
      BY <1>4, ViewOf, Zenon
    <3>2. b \in DOMAIN m.active_by_conn_id BY <1>4, ViewActive, Zenon
    <3> QED BY <3>1, <3>2, Zenon DEF ManagerOK, MapsAgree
  <2>2. A[b] = m.active_by_conn_id[b] BY <2>1, Zenon
  <2> QED BY <1>2, <1>3, <1>4, <2>2, Zenon DEF SameView, At
<1>5. CASE Kind(m, f) # "active"
  BY <1>2, <1>3, <1>5, Zenon DEF SameView, Kind, At
<1> QED BY <1>4, <1>5, Zenon

LEMMA ServerQueueSourced ==
  ASSUME Counted, HInv, NEW e \in Endpoint, ServerQueueSend(e),
         \A f \in Endpoint : Sourced(f), NEW f \in Endpoint
  PROVE  Sourced(f)'
<1>1. PICK k \in Nat : k = server_next[e] BY Zenon DEF Counted
<1> DEFINE c == manager.active_conn_id_by_endpoint[e]
           request == ServerScript[k + 1]
           n == manager_queue_send(manager, c, request)
<1>2. /\ manager' = n /\ server_next' = [server_next EXCEPT ![e] = k + 1]
      /\ UNCHANGED <<clients, net, client_next, client_seen, server_seen>>
      /\ e \in DOMAIN manager.active_conn_id_by_endpoint
  BY <1>1, Zenon DEF ServerQueueSend
<1>3. /\ ManagerOK(manager) /\ Served(manager, e) /\ Sourced(e) /\ Sourced(f)
      /\ DOMAIN server_next = Endpoint
  BY Zenon DEF HInv, Typed, Counted
<1>4. Kind(manager, e) = "active" BY <1>2, <1>3, ViewOf, Zenon
<1>5. /\ ServerQueued(e) = QueuedSoFar(ServerScript, k)
      /\ ServerQueued(e)' = QueuedSoFar(ServerScript, k + 1)
      /\ f # e => ServerQueued(f)' = ServerQueued(f)
      /\ \A g : ClientQueued(g)' = ClientQueued(g)
  BY <1>1, <1>2, <1>3, Zenon DEF ServerQueued, ClientQueued
<1>6. /\ clients'[f] = clients[f] /\ client_seen'[f] = client_seen[f]
      /\ \A d \in net' : d \in net
  BY <1>2, Zenon
<1>7. CASE f # e
  <2>1. SameView(manager, n, f) BY <1>3, <1>4, <1>7, QueueOthers, Zenon
  <2> HIDE DEF n
  <2>2. SameView(manager, manager', f) /\ server_seen'[f] = server_seen[f] BY <1>2, <2>1, Zenon
  <2> QED BY <1>3, <1>5, <1>6, <1>7, <2>2, SourcedStep, ZenonT(30)
<1>8. CASE f = e
  <2> DEFINE s == At(manager, e)
             t == queue_send(s, request)
             S == QueuedSoFar(ServerScript, k)
             T == QueuedSoFar(ServerScript, k + 1)
  <2>1. /\ Sends(s.tx, ConnId, S) /\ Holds(s.rx, ClientQueued(e))
        /\ server_seen[e].data \in Seq(ClientQueued(e))
    BY <1>3, <1>4, <1>5, Zenon DEF Sourced, ServerHalf
  <2>2. S \subseteq T /\ request.payload \in T BY QueuedMore, Zenon
  <2>3. OK(s) BY <1>3, <1>4, Zenon DEF Served
  <2>4. ServerQueued(e) = S /\ ServerQueued(e)' = T BY <1>5, Zenon
  <2> HIDE DEF request, c, S, T
  <2>5. /\ Kind(n, e) = Kind(manager, e)
        /\ Kind(manager, e) # "none" => At(n, e) = s \/ At(n, e) = t
    BY <1>3, QueueView
  <2> HIDE DEF n
  <2>6. Sends(s.tx, ConnId, T)
    <3>1. \A tx : Sends(tx, ConnId, S) => Sends(tx, ConnId, T) BY <2>2, AllowsMore, Zenon
    <3> QED BY <2>1, <3>1, Zenon
  <2>7. Sends(t.tx, ConnId, T) /\ t.rx = s.rx BY <2>2, <2>3, <2>6, QueueSends, Zenon
  <2> HIDE DEF s, t
  <2>8. Sends(At(n, e).tx, ConnId, T) /\ Holds(At(n, e).rx, ClientQueued(e))
    BY <1>4, <2>1, <2>5, <2>6, <2>7, Zenon
  <2>9. ServerHalf(e)' BY <1>2, <1>5, <2>1, <2>4, <2>8, Zenon DEF ServerHalf
  <2> QED BY <1>3, <1>5, <1>6, <1>8, <2>2, <2>4, <2>9, SourcedStep, ZenonT(30)
<1> QED BY <1>7, <1>8, Zenon

Everywhere == \A e \in Endpoint : Sourced(e)

LEMMA InitSourced == Init => Everywhere
<1> SUFFICES ASSUME Init, NEW e \in Endpoint PROVE Sourced(e) BY Zenon DEF Everywhere
<1>1. PICK i \in [Endpoint -> ClientInitialSeqs] :
        clients = [f \in Endpoint |-> NewSession("Client", i[f])]
  BY Zenon DEF Init
<1>2. /\ clients[e] = NewSession("Client", i[e]) /\ manager = NewManager /\ net = {}
      /\ client_seen[e] = NothingSeen /\ server_seen[e] = NothingSeen
  BY <1>1, Zenon DEF Init
<1>3. Kind(manager, e) = "none" BY <1>2, Zenon DEF NewManager, EmptyMap, Kind
<1>4. \A S : NothingSeen.data \in Seq(S) BY DEF NothingSeen
<1>5. Sends(clients[e].tx, ConnId, ClientQueued(e)) /\ Holds(clients[e].rx, ServerQueued(e))
  BY <1>2, NewSends, Zenon
<1>6. client_seen[e].data \in Seq(ServerQueued(e)) /\ server_seen[e].data \in Seq(ClientQueued(e))
  BY <1>2, <1>4, Zenon
<1> QED BY <1>2, <1>3, <1>5, <1>6, Zenon DEF Sourced, ClientHalf, ServerHalf

LEMMA NextSourced == Counted /\ HInv /\ Everywhere /\ [Next]_vars => Everywhere'
<1> SUFFICES ASSUME Counted, HInv, \A e \in Endpoint : Sourced(e), [Next]_vars,
                    NEW f \in Endpoint
             PROVE  Sourced(f)'
  BY Zenon DEF Everywhere
<1>1. ASSUME NEW e \in Endpoint, ClientReceive(e) PROVE Sourced(f)'
  BY <1>1, ClientReceiveSourced, Zenon
<1>2. ASSUME NEW e \in Endpoint, NEW clock, ClientPoll(e, clock) PROVE Sourced(f)'
  BY <1>2, ClientPollSourced, Zenon
<1>3. ASSUME NEW e \in Endpoint,
             ClientQueueSend(e) \/ ClientRequestClose(e) \/ ClientExit(e)
      PROVE  Sourced(f)'
  BY <1>3, ClientQuietSourced, Zenon
<1>4. ASSUME NEW e \in Endpoint, ServerQueueSend(e) PROVE Sourced(f)'
  BY <1>4, ServerQueueSourced, Zenon
<1>5. ASSUME ServerReceive PROVE Sourced(f)' BY <1>5, ServerReceiveSourced, Zenon
<1>6. ASSUME NEW clock, ServerPoll(clock) PROVE Sourced(f)' BY <1>6, ServerPollSourced, Zenon
<1>7. ASSUME UNCHANGED vars PROVE Sourced(f)'
  <2>1. Sourced(f) BY Zenon
  <2> QED BY <1>7, <2>1, Zenon
          DEF vars, Sourced, ClientHalf, ServerHalf, Travels, ClientQueued, ServerQueued
<1> QED BY <1>1, <1>2, <1>3, <1>4, <1>5, <1>6, <1>7, Zenon DEF Next

\* NothingInvented: whatever the network loses, repeats or delays, and however
\* many sessions an endpoint has had, an application is handed no reliable
\* payload but those that the other end of its own endpoint has queued so far
\* (queue_send, poll_tx, on_datagram_received, ServerSessionManager).
THEOREM OnlyWhatWasQueued == Spec => []NothingInvented
<1>1. Everywhere => NothingInvented
  <2>1. ASSUME NEW S, NEW q \in Seq(S) PROVE Range(q) \subseteq S
    <3>1. \A i \in DOMAIN q : q[i] \in S OBVIOUS
    <3> QED BY <3>1, Zenon DEF Range
  <2>2. ASSUME Everywhere, NEW e \in Endpoint
        PROVE  /\ server_seen[e].data \in Seq(ClientQueued(e))
               /\ client_seen[e].data \in Seq(ServerQueued(e))
    BY <2>2, Zenon DEF Everywhere, Sourced, ClientHalf, ServerHalf
  <2>3. ASSUME Everywhere, NEW e \in Endpoint
        PROVE  /\ Range(server_seen[e].data) \subseteq ClientQueued(e)
               /\ Range(client_seen[e].data) \subseteq ServerQueued(e)
    BY <2>1, <2>2, <2>3, Zenon
  <2> QED BY <2>3, Zenon DEF NothingInvented, ClientQueued, ServerQueued
<1>2. Spec => []Everywhere BY InitSourced, NextSourced, AlwaysHInv, PTL DEF Spec
<1> QED BY <1>1, <1>2, PTL
=============================================================================
