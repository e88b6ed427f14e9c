---------------------------- MODULE TimedSystem -----------------------------
(***************************************************************************)
(* One client application, the server application and UDP between them,    *)
(* with the time that Session and TxHandler measure. Time passes in steps  *)
(* (Tick); a stored time is kept as its age, up to the value at which the  *)
(* code acts on it, so that the comparisons with now_ms which Session      *)
(* takes as inputs are computed here. A step is at least as long as a      *)
(* round of a main loop (select with its timeout, at the server also the   *)
(* sleep after it): both loops have nothing left to do when it ends. A     *)
(* datagram is delivered within MaxDelay steps, or lost.                   *)
(***************************************************************************)
EXTENDS ServerSessionManager

CONSTANTS
  InitialRto, MaxRto,  \* transport.initial_rto_ms, max_rto_ms
  KeepaliveIdle,       \* transport.keepalive_idle_ms
  IdleTimeout,         \* transport.idle_timeout_ms
  AckDelay,            \* transport.reliable_ack_delay_ms
  HandshakeLinger,     \* transport.handshake_linger_ms
  MaxDelay,            \* bound: how long a datagram is under way
  MaxLosses,           \* bound: how many losses are counted
  BurstLimit,          \* bound: up to where a burst of datagrams is counted
  LossesEnd,           \* whether the network stops losing after MaxLosses
  ClientScript,        \* what the client hands to queue_send, in order
  ServerScript,        \* what the server hands to queue_send, in order
  ClientInitialSeq, ServerInitialSeq,
  SendStates,          \* bound: client states in which the user types
  MayClose             \* whether the client calls request_close

ASSUME TimedAssumption ==
  /\ {InitialRto, MaxRto, KeepaliveIdle, IdleTimeout} \subseteq Nat \ {0}
  /\ {AckDelay, HandshakeLinger, MaxDelay, MaxLosses, BurstLimit} \subseteq Nat
  /\ {LossesEnd, MayClose} \subseteq BOOLEAN
  /\ {ClientScript, ServerScript} \subseteq Seq(SendRequest)
  /\ {ClientInitialSeq, ServerInitialSeq} \subseteq Seqs
  /\ SendStates \subseteq ConnectionState
  /\ Cardinality(Endpoint) = 1
  /\ ~EnableActivityAckOnly   \* the default

VARIABLES
  client, client_timers,    \* the client's Session and the ages in it
  exited,                   \* the client's main loop has ended
  close_requested,          \* history: the client has called request_close
  manager, server_timers,   \* the server's manager, the ages in its session
  net,                      \* datagrams under way, with their age
  losses,                   \* datagrams lost
  burst,                    \* datagrams sent since time last passed
  now,                      \* the clock, modulo 2
  client_next, server_next, \* how much of each script is queued
  client_got, server_got    \* history: reliable payloads handed over

client_vars == <<client, client_timers, exited, close_requested, client_next,
                 client_got>>
server_vars == <<manager, server_timers, server_next, server_got>>
network_vars == <<net, losses, burst, now>>
vars == <<client_vars, server_vars, network_vars>>

Peer == CHOOSE e \in Endpoint : TRUE

-----------------------------------------------------------------------------
\* The times in a session

NewTimers ==
  [since_rx |-> 0,            \* last_rx_ms
   since_probe |-> 0,         \* probe.last_sent_ms, else established_since_ms
   probed |-> FALSE,          \* probe.last_sent_ms # 0
   ack_due |-> 0,             \* time left until reliable_ack_due_ms
   linger_left |-> -1,        \* time left until final_ack_linger_until_ms
   since_send |-> EmptyMap]   \* last_send_ms of the in-flight entries

retransmit_timeout_for(retry_count) ==
  LET min(a, b) == IF a < b THEN a ELSE b
  IN  min(InitialRto * 2 ^ min(retry_count, 4), MaxRto)

TimedOut(e, t) == t.since_send[e.seq] >= retransmit_timeout_for(e.retry_count)

\* The comparisons of poll_tx with now_ms.
ClockOf(s, t) ==
  [idle |-> t.since_rx >= IdleTimeout,
   reliable_ack |-> t.ack_due = 0,
   activity_ack |-> FALSE,
   probe |-> t.since_probe >= KeepaliveIdle,
   expired |-> {e.seq : e \in {f \in s.tx.inflight : TimedOut(f, t)}}]

lingering(t) == t.linger_left >= 0

\* An entry that was stored or sent again has last_send_ms = now_ms.
SendTimes(s, after, t) ==
  [q \in {e.seq : e \in after.tx.inflight} |->
     IF \E e \in s.tx.inflight, f \in after.tx.inflight :
          e.seq = q /\ f.seq = q /\ e.retry_count = f.retry_count
     THEN t.since_send[q] ELSE 0]

AfterPoll(s, result, t) ==
  LET ping == \E p \in result.out : classify_control_kind(p.flags) = "Ping"
      final_ack == s.tx.final_ack_pending /\ ~result.session.tx.final_ack_pending
  IN  [t EXCEPT !.since_probe = IF ping THEN 0 ELSE @,
                !.probed = @ \/ ping,
                !.linger_left = IF final_ack THEN HandshakeLinger ELSE @,
                !.since_send = SendTimes(s, result.session, t)]

\* Every reliable data packet puts the delayed ACK off.
AfterReceive(s, after, p, t) ==
  LET established == /\ s.connection_state # "Established"
                     /\ after.connection_state = "Established"
      data == p.flags = {} /\ isReliableChannel(p.channel_type)
  IN  [t EXCEPT !.since_rx = 0,
                !.since_probe = IF established /\ ~t.probed THEN 0 ELSE @,
                !.ack_due = IF data THEN AckDelay ELSE @,
                !.since_send = SendTimes(s, after, t)]

\* One step of time. An Established session reads the first two ages; both
\* start anew when it becomes Established, but for the time of a probe, which
\* is kept through a close and a new handshake.
Aged(s, t) ==
  LET up(age, limit) == IF age < limit THEN age + 1 ELSE age
      established == s.connection_state = "Established"
  IN  [t EXCEPT
         !.since_rx = IF established THEN up(@, IdleTimeout) ELSE @,
         !.since_probe = IF s.role = "Client" /\ (established \/ t.probed)
                         THEN up(@, KeepaliveIdle + 1) ELSE @,
         !.ack_due = IF @ > 0 THEN @ - 1 ELSE @,
         !.linger_left = IF @ >= 0 THEN @ - 1 ELSE @,
         !.since_send = [q \in DOMAIN @ |-> up(@[q], MaxRto)]]

\* A poll would send nothing and change nothing.
Idle(s, t) == poll_tx(s, ClockOf(s, t)) = [session |-> s, out |-> {}]

-----------------------------------------------------------------------------
Init ==
  /\ client = NewSession("Client", ClientInitialSeq)
  /\ client_timers = NewTimers
  /\ exited = FALSE /\ close_requested = FALSE
  /\ manager = NewManager
  /\ server_timers = NewTimers
  /\ net = {}
  /\ losses = 0 /\ burst = 0 /\ now = 0
  /\ client_next = 0 /\ server_next = 0
  /\ client_got = << >> /\ server_got = << >>

\* The server's session of the one endpoint: a set of at most one.
SessionsOf(m) == Range(m.pending_by_endpoint) \cup Range(m.active_by_conn_id)
Only(sessions) == CHOOSE s \in sessions : TRUE

IsReliableData(event) ==
  event.type = "DataReceived" /\ isReliableChannel(event.channel_type)

ReliablePayloads(events) ==
  LET data == SelectSeq(events, IsReliableData)
  IN  [i \in DOMAIN data |-> data[i].payload]

Send(to, packets) ==
  /\ net' = net \cup {[to |-> to, packet |-> p, age |-> 0] : p \in packets}
  /\ burst' = IF burst + Cardinality(packets) < BurstLimit
              THEN burst + Cardinality(packets) ELSE BurstLimit
  /\ UNCHANGED <<losses, now>>

\* d reaches the socket of its destination.
Deliver(d, to) ==
  /\ d.to = to
  /\ net' = net \ {d}
  /\ UNCHANGED <<losses, burst, now>>

-----------------------------------------------------------------------------
\* The client application

UpdateClient(s) ==
  /\ client' = [s EXCEPT !.rx = drain_events(@)]
  /\ client_got' = client_got \o ReliablePayloads(s.rx.pending_events)

ClientReceive ==
  /\ ~exited
  /\ \E d \in net :
       LET after == on_datagram_received(client, d.packet, lingering(client_timers))
       IN  /\ Deliver(d, "client")
           /\ UpdateClient(after)
           /\ client_timers' = AfterReceive(client, after, d.packet, client_timers)
  /\ UNCHANGED <<exited, close_requested, client_next, server_vars>>

\* The loop ends with a session in Reset that has nothing to send.
ClientPoll ==
  /\ ~exited
  /\ LET result == poll_tx(client, ClockOf(client, client_timers))
     IN  /\ UpdateClient(result.session)
         /\ client_timers' = AfterPoll(client, result, client_timers)
         /\ Send("server", result.out)
         /\ exited' = (result.out = {} /\ result.session.connection_state = "Reset")
  /\ UNCHANGED <<close_requested, client_next, server_vars>>

ClientQueueSend ==
  /\ ~exited
  /\ client.connection_state \in SendStates
  /\ client_next < Len(ClientScript)
  /\ client' = queue_send(client, ClientScript[client_next + 1])
  /\ client_next' = client_next + 1
  /\ UNCHANGED <<client_timers, exited, close_requested, client_got, server_vars,
                 network_vars>>

ClientRequestClose ==
  /\ MayClose /\ ~exited
  /\ client' = request_close(client)
  /\ close_requested' = TRUE
  /\ UNCHANGED <<client_timers, exited, client_next, client_got, server_vars,
                 network_vars>>

-----------------------------------------------------------------------------
\* The server application

UpdateServer(m) ==
  /\ manager' = manager_drain_events(m)
  /\ server_got' = server_got \o ReliablePayloads(EventsOf(m, Peer))

\* The session that takes the packet, before it does: none, or one.
Addressed(p) ==
  IF IsNewPeer(manager, Peer, p) THEN {NewSession("Server", ServerInitialSeq)}
  ELSE IF RoutesToActive(manager, p) \/ Peer \in DOMAIN manager.pending_by_endpoint
    THEN SessionsOf(manager)
  ELSE {}

\* The times of the server's session after a step; those of a session that is
\* gone are gone with it.
UpdateServerTimers(m, timers) ==
  server_timers' = IF SessionsOf(m) = {} THEN NewTimers ELSE timers

\* Bound: connection numbers are drawn in ascending order.
ServerReceive ==
  /\ \E d \in net :
       LET new == IsNewPeer(manager, Peer, d.packet)
           m == manager_on_datagram_received(manager, Peer, d.packet, FALSE,
                  IF new THEN Min(FreeConnIds(manager)) ELSE 0, ServerInitialSeq)
       IN  /\ Deliver(d, "server")
           /\ UpdateServer(m)
           /\ UpdateServerTimers(m,
                IF Addressed(d.packet) = {} THEN server_timers
                ELSE AfterReceive(Only(Addressed(d.packet)), Only(SessionsOf(m)),
                                  d.packet,
                                  IF new THEN NewTimers ELSE server_timers))
  /\ UNCHANGED <<server_next, client_vars>>

ServerPoll ==
  /\ SessionsOf(manager) # {}
  /\ LET s == Only(SessionsOf(manager))
         clock == [e \in Endpoint |-> ClockOf(s, server_timers)]
         m == manager_poll_tx(manager, clock)
         out == {o[2] : o \in manager_outbound(manager, clock)}
     IN  /\ UpdateServer(m)
         /\ UpdateServerTimers(m,
              AfterPoll(s, [session |-> Only(SessionsOf(m)), out |-> out],
                        server_timers))
         /\ Send("client", out)
  /\ UNCHANGED <<server_next, client_vars>>

ServerQueueSend ==
  /\ server_next < Len(ServerScript)
  /\ \E c \in DOMAIN manager.active_by_conn_id :
       manager' = manager_queue_send(manager, c, ServerScript[server_next + 1])
  /\ server_next' = server_next + 1
  /\ UNCHANGED <<server_timers, server_got, client_vars, network_vars>>

-----------------------------------------------------------------------------
\* The network loses a datagram, or the client that it is for has ended.
Lose ==
  /\ \E d \in net :
       /\ net' = net \ {d}
       /\ IF d.to = "client" /\ exited THEN losses' = losses
          ELSE /\ losses < MaxLosses \/ ~LossesEnd
               /\ losses' = IF losses < MaxLosses THEN losses + 1 ELSE losses
  /\ UNCHANGED <<burst, now, client_vars, server_vars>>

ClientIdle ==
  exited \/ (client.connection_state # "Reset" /\ Idle(client, client_timers))
ServerIdle == \A s \in SessionsOf(manager) : Idle(s, server_timers)

Tick ==
  /\ \A d \in net : d.age < MaxDelay
  /\ ClientIdle /\ ServerIdle
  /\ now' = 1 - now /\ burst' = 0
  /\ net' = {[d EXCEPT !.age = @ + 1] : d \in net}
  /\ client_timers' = IF exited THEN client_timers ELSE Aged(client, client_timers)
  /\ UpdateServerTimers(manager, Aged(Only(SessionsOf(manager)), server_timers))
  /\ UNCHANGED <<client, exited, close_requested, client_next, client_got,
                 manager, server_next, server_got, losses>>

ClientStep == ClientReceive \/ ClientPoll
ServerStep == ServerReceive \/ ServerPoll
UserStep == ClientQueueSend \/ ClientRequestClose \/ ServerQueueSend

Next == ClientStep \/ ServerStep \/ UserStep \/ Lose \/ Tick

Spec == Init /\ [][Next]_vars

\* Time goes on. Tick waits for both main loops and for what is overdue on
\* the network, so this is all the scheduling that progress needs; that Tick
\* does not wait for ever is what NoStorm and the absence of deadlock show.
TimePasses == now' = 1 - now

FairSpec == Spec /\ WF_now(TimePasses)

-----------------------------------------------------------------------------
Failed == exited \/ client.connection_state = "Reset"

\* Something other than the protocol itself may have ended the connection.
Disturbed == losses > 0 \/ close_requested

\* Session and ServerSessionManager: as long as the network loses nothing, no
\* timer ends the connection: keepalive probes keep the idle timeout away on
\* both sides, and retransmission never gives up.
LosslessStaysUp ==
  ~Disturbed =>
    /\ ~Failed
    /\ client.connection_state = "Established" =>
         \A s \in SessionsOf(manager) :
           s.connection_state \in {"HandshakeReceived", "Established"}
    /\ manager.retired_conn_ids = {}

\* Session::schedule_receive_side_ack: each reliable packet puts the delayed
\* ACK off, and the one that goes out in the end acknowledges them all. If
\* nothing is lost, a sender that pauses for a round trip and the ACK delay
\* has nothing in flight afterwards: whatever is in flight, something was sent
\* within that time. So only an unbroken stream can keep a packet waiting. (In
\* a window of two; in a larger one reordering can confuse the bitmap.)
AckedAfterPause ==
  LET Recent(s, t) == \E e \in s.tx.inflight :
                        t.since_send[e.seq] <= 2 * MaxDelay + AckDelay
  IN  ~Disturbed =>
        /\ client.tx.inflight # {} => Recent(client, client_timers)
        /\ \A s \in SessionsOf(manager) :
             s.tx.inflight # {} => Recent(s, server_timers)

\* What a retransmission timeout stands for: as long as nothing is lost, no
\* packet waits out its timeout. An unbroken stream of reliable packets refutes
\* it: the ACK is put off until the timeout of the first has passed.
NoSpuriousTimeout ==
  ~Disturbed =>
    /\ \A e \in client.tx.inflight : ~TimedOut(e, client_timers)
    /\ \A s \in SessionsOf(manager) :
         \A e \in s.tx.inflight : ~TimedOut(e, server_timers)

\* Session and RxHandler: the two main loops never keep answering each other.
\* Between two steps of time they send fewer than BurstLimit datagrams,
\* whatever is lost, queued or closed in the meantime.
NoStorm == burst < BurstLimit

\* Session and ServerSessionManager: as long as nothing is lost, the handshake
\* completes on both sides.
LosslessConnects ==
  <>(DOMAIN manager.active_by_conn_id # {} \/ Disturbed)

\* RxHandler and TxHandler: what is queued is delivered, as long as nothing is
\* lost, in whatever order it arrives.
LosslessDelivers ==
  /\ \A i \in DOMAIN ClientScript :
       (client_next >= i) ~> (ClientScript[i].payload \in Range(server_got) \/ Disturbed)
  /\ \A i \in DOMAIN ServerScript :
       (server_next >= i) ~> (ServerScript[i].payload \in Range(client_got) \/ Disturbed)

\* readme.md: the client sends a keepalive probe every keepalive interval while
\* established.
ProbesEvery ==
  client.connection_state = "Established" => client_timers.since_probe <= KeepaliveIdle

\* The client's side of the connection implements ReliableChannel: whatever is
\* lost, a payload that the client queues reaches the server's application, at
\* most once, or the client's connection ends or is closed (Protocol.md,
\* Section 8.1: a reliable packet is acknowledged, or the connection fails).
Channel == INSTANCE ReliableChannel
             WITH Script <- [i \in DOMAIN ClientScript |-> ClientScript[i].payload],
                  accepted <- client_next, delivered <- server_got,
                  broken <- exited \/ close_requested

ImplementsChannel == Channel!FairSpec

\* The same of what the server queues, while it has an active session.
ServerPayloadResolved ==
  \A i \in DOMAIN ServerScript :
    (server_next >= i) ~> \/ ServerScript[i].payload \in Range(client_got)
                          \/ DOMAIN manager.active_by_conn_id = {}

\* A handshake that the client regards as complete completes at the server
\* too, or the client's connection fails or is closed: the client does not stay
\* connected to nobody.
HandshakeResolves ==
  (client.connection_state = "Established") ~>
    (exited \/ close_requested \/ DOMAIN manager.active_by_conn_id # {})

\* TxHandler::try_build_retransmit: a connection is given up only when the last
\* retransmission has gone unanswered for its timeout.
GivesUpAfterTimeout ==
  [][(client.connection_state # "Reset" /\ client'.connection_state = "Reset") =>
       \A e \in client.tx.inflight \ client'.tx.inflight :
         e.retry_count >= MaxRetransmitCount => TimedOut(e, client_timers)]_vars

\* Session::request_close and the FIN: a close that has begun comes to an end,
\* with the FIN acknowledged or the connection reset, whatever data is still
\* queued before the FIN and whatever is lost.
CloseEnds ==
  (client.connection_state = "Closing") ~> (client.connection_state # "Closing")

\* Protocol.md, Section 9.1: no half-close. When the client has closed the
\* connection, the server's side of it ends too.
CloseReleases ==
  (client.connection_state = "Closing") ~> (DOMAIN manager.active_by_conn_id = {})
=============================================================================
