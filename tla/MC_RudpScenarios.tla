-------------------------- MODULE MC_RudpScenarios --------------------------
(***************************************************************************)
(* Five questions asked of the system in one state space. In each          *)
(* behaviour some of the clients run, some deadlines pass and some         *)
(* application calls are made; the rest does not happen in it.             *)
(***************************************************************************)
EXTENDS MC_RudpSystem

VARIABLES
  scenario,   \* a name in Scenarios
  running     \* the clients that are started

\* conn_ids: how many connection numbers the server hands out.
\* at_client, at_server: the deadlines that may pass on either side.
Scenarios ==
  [handshake |-> [clients |-> 2, conn_ids |-> 3,
                  at_client |-> {"idle", "rto"}, at_server |-> {"idle", "rto"},
                  client_sends |-> 0, server_sends |-> 0, closes |-> FALSE],
   delivery |-> [clients |-> 1, conn_ids |-> 1,
                 at_client |-> {"rto"}, at_server |-> {"reliable_ack"},
                 client_sends |-> 2, server_sends |-> 1, closes |-> FALSE],
   resending |-> [clients |-> 1, conn_ids |-> 1,
                  at_client |-> {"rto"}, at_server |-> {"rto"},
                  client_sends |-> 2, server_sends |-> 1, closes |-> FALSE],
   exchange |-> [clients |-> 1, conn_ids |-> 1,
                 at_client |-> {"rto", "reliable_ack"},
                 at_server |-> {"rto", "reliable_ack"},
                 client_sends |-> 1, server_sends |-> 1, closes |-> FALSE],
   close |-> [clients |-> 1, conn_ids |-> 1,
              at_client |-> {"rto", "reliable_ack"},
              at_server |-> {"rto", "reliable_ack"},
              client_sends |-> 1, server_sends |-> 0, closes |-> TRUE]]

Chosen == Scenarios[scenario]

MCInit ==
  /\ Init
  /\ scenario \in DOMAIN Scenarios
  /\ running \in {c \in SUBSET Endpoint : Cardinality(c) = Chosen.clients}

Within(clock, deadlines) ==
  /\ \A d \in {"idle", "reliable_ack", "activity_ack", "probe"} \ deadlines : ~clock[d]
  /\ "rto" \notin deadlines => clock.expired = {}

MCNext ==
  /\ \/ \E e \in running :
          \/ ClientReceive(e)
          \/ \E clock \in {c \in ClockReadings(clients[e]) : Within(c, Chosen.at_client)} :
               ClientPoll(e, clock)
          \/ client_next[e] < Chosen.client_sends /\ ClientQueueSend(e)
          \/ Chosen.closes /\ ClientRequestClose(e)
          \/ ClientExit(e)
          \/ server_next[e] < Chosen.server_sends /\ ServerQueueSend(e)
     \/ /\ ServerReceive
        /\ \A e \in DOMAIN manager'.pending_by_endpoint :
             manager'.pending_by_endpoint[e].conn_id <= Chosen.conn_ids
     \/ \E clock \in {c \in ServerClocks(manager) :
                      \A e \in Endpoint : Within(c[e], Chosen.at_server)} :
          ServerPoll(clock)
  /\ Chosen.closes => NoReconnect'
  /\ UNCHANGED <<scenario, running>>

MCSpec == MCInit /\ [][MCNext]_<<vars, scenario, running>>
=============================================================================
