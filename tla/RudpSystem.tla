----------------------------- MODULE RudpSystem -----------------------------
(***************************************************************************)
(* The deployed system: client applications (src/BsdClientApp.cpp), one    *)
(* per endpoint, the server application with its session manager           *)
(* (src/BsdServerApp.cpp), and UDP between them. net is the set of all     *)
(* datagrams ever sent; any of them may be delivered at any time, any      *)
(* number of times, or never: loss, duplication and reordering.            *)
(***************************************************************************)
EXTENDS ServerSessionManager

CONSTANTS
  ClientScript,       \* what each client hands to queue_send, in order
  ServerScript,       \* what the server hands to queue_send per endpoint
  ClientInitialSeqs,  \* initial sequence numbers a client may draw
  ServerInitialSeqs,  \* initial sequence numbers a server session may draw
  SendStates,         \* bound: client states in which the user types
  MayClose            \* bound: whether the client calls request_close

ASSUME SystemAssumption ==
  /\ ClientScript \in Seq(SendRequest)
  /\ ServerScript \in Seq(SendRequest)
  /\ ClientInitialSeqs \subseteq Seqs
  /\ ServerInitialSeqs \subseteq Seqs
  /\ SendStates \subseteq ConnectionState
  /\ MayClose \in BOOLEAN

VARIABLES
  clients,      \* the Session of each client
  exited,       \* the clients whose main loop has ended
  manager,      \* the server's ServerSessionManager
  net,          \* datagrams sent so far
  client_next,  \* how much of ClientScript each client has queued
  server_next,  \* how much of ServerScript the server has queued
  client_seen,  \* history: events the client application was handed
  server_seen   \* history: events the server application was handed

vars == <<clients, exited, manager, net, client_next, server_next,
          client_seen, server_seen>>

\* What a history keeps of drained events: the payloads of reliable data in
\* order, and the types of the others.
IsReliableData(event) ==
  event.type = "DataReceived" /\ isReliableChannel(event.channel_type)

ReliablePayloads(events) ==
  LET after[k \in 0 .. Len(events)] ==
        IF k = 0 THEN << >>
        ELSE IF IsReliableData(events[k])
          THEN Append(after[k - 1], events[k].payload)
        ELSE after[k - 1]
  IN  after[Len(events)]

Seen(log, events) ==
  [data |-> log.data \o ReliablePayloads(events),
   types |-> log.types \cup
             ({events[i].type : i \in DOMAIN events} \ {"DataReceived"})]

NothingSeen == [data |-> << >>, types |-> {}]

ToServer(e, p) == [to |-> "server", endpoint |-> e, packet |-> p]
ToClient(e, p) == [to |-> "client", endpoint |-> e, packet |-> p]

Init ==
  /\ \E i \in [Endpoint -> ClientInitialSeqs] :
       clients = [e \in Endpoint |-> NewSession("Client", i[e])]
  /\ exited = {}
  /\ manager = NewManager
  /\ net = {}
  /\ client_next = [e \in Endpoint |-> 0]
  /\ server_next = [e \in Endpoint |-> 0]
  /\ client_seen = [e \in Endpoint |-> NothingSeen]
  /\ server_seen = [e \in Endpoint |-> NothingSeen]

-----------------------------------------------------------------------------
\* Client application. Nothing reads pending_events before the end of the
\* loop body drains it, so events are handed over by the call that emits them.

UpdateClient(e, s) ==
  /\ clients' = [clients EXCEPT ![e] = [s EXCEPT !.rx = drain_events(@)]]
  /\ client_seen' = [client_seen EXCEPT ![e] = Seen(@, s.rx.pending_events)]

\* The linger deadline is looked at for a SYN-ACK only.
ClientReceive(e) ==
  /\ e \notin exited
  /\ \E d \in net, lingering \in BOOLEAN :
       /\ d.to = "client" /\ d.endpoint = e
       /\ lingering => classify_control_kind(d.packet.flags) = "SynAck"
       /\ UpdateClient(e, on_datagram_received(clients[e], d.packet, lingering))
  /\ UNCHANGED <<exited, manager, net, client_next, server_next, server_seen>>

\* The poll loop stops at the first poll that sends nothing; the main loop
\* then ends if the session is in Reset.
ClientPoll(e, clock) ==
  /\ e \notin exited
  /\ LET result == poll_tx(clients[e], clock)
     IN  /\ UpdateClient(e, result.session)
         /\ net' = net \cup {ToServer(e, p) : p \in result.out}
         /\ exited' = IF result.out = {} /\ result.session.connection_state = "Reset"
                      THEN exited \cup {e} ELSE exited
  /\ UNCHANGED <<manager, client_next, server_next, server_seen>>

ClientQueueSend(e) ==
  /\ e \notin exited
  /\ client_next[e] < Len(ClientScript)
  /\ clients[e].connection_state \in SendStates
  /\ clients' = [clients EXCEPT ![e] =
                   queue_send(@, ClientScript[client_next[e] + 1])]
  /\ client_next' = [client_next EXCEPT ![e] = @ + 1]
  /\ UNCHANGED <<exited, manager, net, server_next, client_seen, server_seen>>

ClientRequestClose(e) ==
  /\ MayClose /\ e \notin exited
  /\ clients' = [clients EXCEPT ![e] = request_close(@)]
  /\ UNCHANGED <<exited, manager, net, client_next, server_next,
                 client_seen, server_seen>>

\* Or the poll loop has used up poll_budget when the session is in Reset.
ClientExit(e) ==
  /\ e \notin exited
  /\ clients[e].connection_state = "Reset"
  /\ exited' = exited \cup {e}
  /\ UNCHANGED <<clients, manager, net, client_next, server_next,
                 client_seen, server_seen>>

-----------------------------------------------------------------------------
\* Server application: drain_server_events follows every call.

UpdateServer(m) ==
  /\ manager' = manager_drain_events(m)
  /\ server_seen' = [e \in Endpoint |-> Seen(server_seen[e], EventsOf(m, e))]

ServerReceive ==
  /\ \E d \in net :
       /\ d.to = "server"
       /\ \E id \in IF IsNewPeer(manager, d.endpoint, d.packet)
                    THEN FreeConnIds(manager) ELSE {0},
             i \in ServerInitialSeqs :
            UpdateServer(manager_on_datagram_received(
                           manager, d.endpoint, d.packet, FALSE, id, i))
  /\ UNCHANGED <<clients, exited, net, client_next, server_next, client_seen>>

ServerPoll(clock) ==
  /\ UpdateServer(manager_poll_tx(manager, clock))
  /\ net' = net \cup {ToClient(o[1], o[2]) : o \in manager_outbound(manager, clock)}
  /\ UNCHANGED <<clients, exited, client_next, server_next, client_seen>>

ServerQueueSend(e) ==
  /\ server_next[e] < Len(ServerScript)
  /\ e \in DOMAIN manager.active_conn_id_by_endpoint
  /\ manager' = manager_queue_send(manager,
                  manager.active_conn_id_by_endpoint[e],
                  ServerScript[server_next[e] + 1])
  /\ server_next' = [server_next EXCEPT ![e] = @ + 1]
  /\ UNCHANGED <<clients, exited, net, client_next, client_seen, server_seen>>

Next ==
  \/ \E e \in Endpoint :
       \/ ClientReceive(e)
       \/ \E clock \in ClockReadings(clients[e]) : ClientPoll(e, clock)
       \/ ClientQueueSend(e) \/ ClientRequestClose(e) \/ ClientExit(e)
       \/ ServerQueueSend(e)
  \/ ServerReceive
  \/ \E clock \in ServerClocks(manager) : ServerPoll(clock)

Spec == Init /\ [][Next]_vars
-----------------------------------------------------------------------------
\* ServerSessionManager: the four maps agree. An endpoint is pending or
\* active, never both; the endpoint index and the session table name the same
\* connections, one endpoint each, under the session's own conn_id; live ids
\* are distinct, and none of them has been retired before.
IndexesAgree == MapsAgree(manager)

\* Handshake: the server promotes a connection only for the client that
\* adopted its conn_id from the SYN-ACK, whatever SYNs, SYN-ACKs and ACKs are
\* lost, repeated or late. Its client has left the handshake behind, unless it
\* closed the connection since and opens another.
HandshakeAgreement ==
  \A e \in DOMAIN manager.active_conn_id_by_endpoint :
    /\ clients[e].conn_id = manager.active_conn_id_by_endpoint[e]
    /\ \/ clients[e].connection_state \notin
            {"Closed", "HandshakeSent", "HandshakeReceived"}
       \/ "ConnectionClosed" \in client_seen[e].types
    /\ "Connected" \in server_seen[e].types

\* The server's session with client e, a set of at most one.
ServerSession(e) ==
  IF e \in DOMAIN manager.active_conn_id_by_endpoint
  THEN {manager.active_by_conn_id[manager.active_conn_id_by_endpoint[e]]}
  ELSE {}

\* RxHandler and TxHandler: neither side acknowledges what the other has not
\* sent. An acknowledgement from the future would make the sender forget
\* packets nobody has received, and block its window.
AckWithinSent ==
  \A e \in Endpoint : \A s \in ServerSession(e) :
    /\ SeqSub(clients[e].tx.next_seq, s.rx.next_expected) <= ReliableWindowSize
    /\ SeqSub(s.tx.next_seq, clients[e].rx.next_expected) <= ReliableWindowSize

Payloads(script, n) == [i \in 1 .. n |-> script[i].payload]

\* RxHandler: no reliable payload reaches the application twice, whatever the
\* network repeats (the payloads of a script are distinct).
DeliveredOnce ==
  \A e \in Endpoint :
    /\ \A i, j \in DOMAIN server_seen[e].data :
         server_seen[e].data[i] = server_seen[e].data[j] => i = j
    /\ \A i, j \in DOMAIN client_seen[e].data :
         client_seen[e].data[i] = client_seen[e].data[j] => i = j

\* What the first n calls of queue_send for a script have handed over.
QueuedSoFar(script, n) == {script[i].payload : i \in 1 .. n}

\* TxHandler, RxHandler, ServerSessionManager: an application is handed no
\* reliable payload but those that the application at the other end of this
\* very endpoint has queued by then, whatever is lost, repeated, late, buffered
\* or sent again, and whichever sessions have come and gone.
NothingInvented ==
  \A e \in Endpoint :
    /\ Range(server_seen[e].data) \subseteq QueuedSoFar(ClientScript, client_next[e])
    /\ Range(client_seen[e].data) \subseteq QueuedSoFar(ServerScript, server_next[e])

\* A reliable payload that a sender has handed to the network is still in
\* flight, or its receiver has delivered it or holds it for reordering: the
\* sender never forgets (on an acknowledgement) a payload that is lost.
\* Protocol.md, Section 8: reliable packets are not dropped silently.
Tracked(tx, payload) ==
  \/ \E n \in DOMAIN tx.pending_send : tx.pending_send[n].payload = payload
  \/ \E f \in tx.inflight : f.payload = payload

Held(rx, payload) == \E b \in rx.ordered_reorder_buffer : b.payload = payload

NoSilentLoss ==
  \A e \in Endpoint : \A s \in ServerSession(e) :
    clients[e].connection_state = "Established" =>
      /\ \A i \in 1 .. client_next[e] :
           LET payload == ClientScript[i].payload
           IN  \/ Tracked(clients[e].tx, payload) \/ Held(s.rx, payload)
               \/ payload \in Range(server_seen[e].data)
      /\ \A i \in 1 .. server_next[e] :
           LET payload == ServerScript[i].payload
           IN  \/ Tracked(s.tx, payload) \/ Held(clients[e].rx, payload)
               \/ payload \in Range(client_seen[e].data)

IsPrefixOf(s, t) == Len(s) <= Len(t) /\ \A i \in DOMAIN s : s[i] = t[i]

\* RxHandler: the ReliableOrdered payloads of a script are delivered in the
\* order in which the sender queued them, from the first one on. Protocol.md,
\* Section 6.1: delivered in order, head-of-line blocking applies.
OrderedPrefix ==
  \A e \in Endpoint :
    /\ IsPrefixOf(server_seen[e].data, Payloads(ClientScript, Len(ClientScript)))
    /\ IsPrefixOf(client_seen[e].data, Payloads(ServerScript, Len(ServerScript)))

\* ServerSessionManager: a connection that the server application was told of
\* never disappears from the manager without an event that says so.
\* Protocol.md, Section 8.1: an exceeded retry limit is reported as an error.
FailureReported ==
  \A e \in Endpoint :
    ("Connected" \in server_seen[e].types /\ ServerSession(e) = {}) =>
      server_seen[e].types \cap {"Error", "ConnectionClosed", "ConnectionReset"} # {}

\* Session::request_close: a client that reports the connection closed because
\* its FIN was acknowledged leaves no server session that is still Established.
CloseIsKnown ==
  \A e \in Endpoint :
    (clients[e].connection_state = "Closed" /\ "ConnectionClosed" \in client_seen[e].types)
      => \A s \in ServerSession(e) : s.connection_state # "Established"
=============================================================================
