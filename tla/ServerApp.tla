------------------------------ MODULE ServerApp ------------------------------
(***************************************************************************)
(* The server program (src/BsdServerApp.cpp): one thread that receives,    *)
(* reads a line of stdin, polls and sends, and that keeps two tables of    *)
(* its own next to the session manager, fed by the events it drains. The   *)
(* peers are not modelled: any packet of Inbound may arrive from any       *)
(* endpoint at any time.                                                   *)
(***************************************************************************)
EXTENDS ServerSessionManager

CONSTANTS
  Inbound,           \* packets the socket may deliver
  InitialSeqs,       \* initial sequence numbers a session may draw
  Channels,          \* profile.channels, in order
  MaxQueued          \* bound: lines of text waiting in one session

ASSUME ServerAppAssumption ==
  /\ Inbound \subseteq Packet
  /\ InitialSeqs \subseteq Seqs
  /\ Channels \in Seq([id: ChannelId, type: ChannelType, is_default: BOOLEAN])
  /\ MaxQueued \in Nat
  /\ IsFiniteSet(Endpoint)

VARIABLES
  manager,
  preferred_conn_id,  \* where plain text goes: a set of at most one
  active_endpoints,   \* what /sessions lists: conn_id -> endpoint
  should_exit,        \* set by /quit
  phase               \* where the main loop is

vars == <<manager, preferred_conn_id, active_endpoints, should_exit, phase>>

Init ==
  /\ manager = NewManager
  /\ preferred_conn_id = {}
  /\ active_endpoints = EmptyMap
  /\ should_exit = FALSE
  /\ phase = "head"

-----------------------------------------------------------------------------
\* drain_server_events

\* What drain_events returns for the session of endpoint e.
Wrapped(m, e) ==
  LET conn_id == IF e \in DOMAIN m.pending_by_endpoint
                 THEN m.pending_by_endpoint[e].conn_id
                 ELSE m.active_conn_id_by_endpoint[e]
  IN  [i \in DOMAIN EventsOf(m, e) |->
         [endpoint |-> e, conn_id |-> conn_id, type |-> EventsOf(m, e)[i].type]]

EndsSession(type) == type \in {"ConnectionReset", "ConnectionClosed", "Error"}

\* Every event makes its session the preferred one and lists it; one that
\* ends the session undoes both.
TakeEvent(tables, event) ==
  IF event.conn_id = 0 THEN tables
  ELSE IF EndsSession(event.type)
    THEN [preferred |-> {},
          endpoints |-> Erase(tables.endpoints, event.conn_id)]
  ELSE [preferred |-> {event.conn_id},
        endpoints |-> Put(tables.endpoints, event.conn_id, event.endpoint)]

\* The loop over the events of one session, and over the sessions in turn.
TakeEvents(tables, events) ==
  LET after[k \in 0 .. Len(events)] ==
        IF k = 0 THEN tables ELSE TakeEvent(after[k - 1], events[k])
  IN  after[Len(events)]

TakeSessions(tables, m, order) ==
  LET after[k \in 0 .. Len(order)] ==
        IF k = 0 THEN tables ELSE TakeEvents(after[k - 1], Wrapped(m, order[k]))
  IN  after[Len(order)]

\* The sequences that hold every member of S once.
Orders(S) == {p \in [1 .. Cardinality(S) -> S] : Range(p) = S}

\* Mutant: the events of active sessions are not collected.
DrainOrders_pending_only(m) == Orders(DOMAIN m.pending_by_endpoint)

\* The manager's maps are unordered: any order of the endpoints, the pending
\* ones first.
DrainOrders(m) ==
  {p \o q : p \in Orders(DOMAIN m.pending_by_endpoint),
            q \in Orders(DOMAIN m.active_conn_id_by_endpoint)}

drain_server_events(m) ==
  /\ manager' = manager_drain_events(m)
  /\ \E order \in DrainOrders(m) :
       LET tables == TakeSessions([preferred |-> preferred_conn_id,
                                   endpoints |-> active_endpoints], m, order)
       IN  /\ preferred_conn_id' = tables.preferred
           /\ active_endpoints' = tables.endpoints

-----------------------------------------------------------------------------
\* The main loop: any number of datagrams, at most one line, one poll.

Receive ==
  /\ phase \in {"head", "receive"}
  /\ \E e \in Endpoint, p \in Inbound :
       \E id \in IF IsNewPeer(manager, e, p) THEN FreeConnIds(manager) ELSE {0},
          i \in InitialSeqs :
         drain_server_events(
           manager_on_datagram_received(manager, e, p, FALSE, id, i))
  /\ phase' = "receive"
  /\ UNCHANGED should_exit

\* default_channel: the first one marked, else the first one; at most one.
default_channel ==
  LET marked == {i \in DOMAIN Channels : Channels[i].is_default}
  IN  IF Channels = << >> THEN {}
      ELSE {Channels[IF marked = {} THEN 1 ELSE Min(marked)]}

\* parse_server_send_command: "send <conn_id> <channel> <message>" names any
\* number and any channel; plain text goes to the preferred session.
SendCommands ==
  {[conn_id |-> c, channel |-> Channels[i]] : c \in ConnId, i \in DOMAIN Channels}
    \cup {[conn_id |-> c, channel |-> d] : c \in preferred_conn_id,
                                           d \in default_channel}

\* queue_send refuses a conn_id that is not active.
SendLine ==
  /\ \E command \in SendCommands, payload \in Payload \ {NoPayload} :
       /\ command.conn_id \in DOMAIN manager.active_by_conn_id =>
            Len(manager.active_by_conn_id[command.conn_id].tx.pending_send)
              < MaxQueued
       /\ manager' = manager_queue_send(manager, command.conn_id,
                       [channel_id |-> command.channel.id,
                        channel_type |-> command.channel.type,
                        payload |-> payload])
  /\ UNCHANGED should_exit

\* /quit or the end of stdin: the loop body is finished first.
Quit ==
  /\ should_exit' = TRUE
  /\ UNCHANGED manager

handle_server_stdin ==
  /\ phase \in {"head", "receive"}
  /\ SendLine \/ Quit
  /\ phase' = "poll"
  /\ UNCHANGED <<preferred_conn_id, active_endpoints>>

Poll ==
  /\ phase \in {"head", "receive", "poll"}
  /\ \E clock \in ServerClocks(manager) :
       drain_server_events(manager_poll_tx(manager, clock))
  /\ phase' = IF should_exit THEN "done" ELSE "head"
  /\ UNCHANGED should_exit

\* A signal is looked at when the loop begins.
Stop ==
  /\ phase = "head"
  /\ phase' = "done"
  /\ UNCHANGED <<manager, preferred_conn_id, active_endpoints, should_exit>>

Done == phase = "done" /\ UNCHANGED vars

Next == Receive \/ handle_server_stdin \/ Poll \/ Stop \/ Done

Spec == Init /\ [][Next]_vars
-----------------------------------------------------------------------------
\* ServerSessionManager: its four maps agree, whatever the peers send and
\* whatever the sessions do with it (see MapsAgree).
IndexesAgree == MapsAgree(manager)

SessionIdAt(e) ==
  IF e \in DOMAIN manager.pending_by_endpoint
  THEN {manager.pending_by_endpoint[e].conn_id}
  ELSE {manager.active_conn_id_by_endpoint[f] :
          f \in {e} \cap DOMAIN manager.active_conn_id_by_endpoint}

\* drain_server_events: the number that plain text goes to is listed by
\* /sessions, and no listed number is the connection of another endpoint: an
\* entry that outlives its session never comes to name a later peer.
NeverMisdirected ==
  /\ preferred_conn_id \subseteq DOMAIN active_endpoints
  /\ \A c \in DOMAIN active_endpoints, e \in Endpoint :
       c \in SessionIdAt(e) => active_endpoints[c] = e

\* ServerSessionManager: a connection number stays with its peer. Whatever
\* arrives, is typed or times out, a step leaves a live number with the
\* endpoint it was drawn for, from the pending map to the active one, or
\* retires it, and a retired number stays retired: a packet that carries a
\* number can only ever have been meant for one peer.
NumbersKeepTheirPeer ==
  [][/\ manager.retired_conn_ids \subseteq manager'.retired_conn_ids
     /\ \A e \in Endpoint :
          SessionIdAt(e) \subseteq SessionIdAt(e)' \cup manager'.retired_conn_ids]_vars

\* What the application relies on: every flag byte is one of the protocol, and
\* a SYN carries no number, as the first packet of a client does. A session
\* reports other packets as errors and stays Established, and the application
\* takes the error for its end (EndsSession).
PeersConform ==
  \A p \in Inbound : LET kind == classify_control_kind(p.flags)
                     IN  kind # "Invalid" /\ (kind = "Syn" => p.conn_id = 0)

\* drain_server_events: a session that can transfer data is listed. The events
\* that promote it reach the application even though the session is moved
\* from one map to the other by the call that emits them.
EstablishedIsListed ==
  \A c \in DOMAIN manager.active_by_conn_id :
    manager.active_by_conn_id[c].connection_state = "Established" =>
      c \in DOMAIN active_endpoints

\* ServerSessionManager: a session that has been reset or closed does not
\* survive the call that ended it, in either map. The connection state machine
\* relies on it: a FIN moves a session to Closing whatever its state, so a
\* reset session that stayed in the table would be revived by a late FIN.
TerminalIsRemoved ==
  /\ \A e \in DOMAIN manager.pending_by_endpoint :
       manager.pending_by_endpoint[e].connection_state \notin {"Reset", "Closed"}
  /\ \A c \in DOMAIN manager.active_by_conn_id :
       manager.active_by_conn_id[c].connection_state \notin {"Reset", "Closed"}

\* readme.md: plain text goes to the most recent active session. The session
\* that drain_server_events remembers is one the manager still has.
PreferredIsLive ==
  preferred_conn_id \cap manager.retired_conn_ids = {}
==============================================================================
