------------------------- MODULE MC_TimedScenarios --------------------------
(***************************************************************************)
(* Several questions asked of the timed system in one state space. In each *)
(* behaviour the applications make some of their calls; the rest does not  *)
(* happen in it. Nothing is queued after request_close, which is called    *)
(* once.                                                                   *)
(***************************************************************************)
EXTENDS MC_TimedSystem

VARIABLE scenario   \* a name in Scenarios

\* How much each side sends at most, and whether the client closes.
Scenarios ==
  [both |-> [client_sends |-> 1, server_sends |-> 1, closes |-> FALSE],
   channel |-> [client_sends |-> 3, server_sends |-> 0, closes |-> FALSE],
   closing |-> [client_sends |-> 1, server_sends |-> 0, closes |-> TRUE],
   push |-> [client_sends |-> 0, server_sends |-> 2, closes |-> FALSE]]

Chosen == Scenarios[scenario]

MCInit == Init /\ scenario \in {"both", "channel", "closing"}

Sends ==
  \/ client_next < Chosen.client_sends /\ ~close_requested /\ ClientQueueSend
  \/ server_next < Chosen.server_sends /\ ServerQueueSend

MCNext ==
  /\ \/ ClientStep
     \/ ServerStep
     \/ Sends
     \/ Chosen.closes /\ ~close_requested /\ ClientRequestClose
     \/ Lose
     \/ Tick
  /\ UNCHANGED scenario

MCFairSpec == MCInit /\ [][MCNext]_<<vars, scenario>> /\ WF_now(TimePasses)

\* A network that loses nothing, and a client that does not close.
UndisturbedInit == Init /\ scenario \in {"both", "channel", "push"}

UndisturbedNext ==
  /\ ClientStep \/ ServerStep \/ Sends \/ Tick
  /\ UNCHANGED scenario

UndisturbedSpec ==
  UndisturbedInit /\ [][UndisturbedNext]_<<vars, scenario>> /\ WF_now(TimePasses)
=============================================================================
