---------------------------- MODULE MC_RudpSystem ----------------------------
EXTENDS RudpSystem

NoVersions == [p \in Payload |-> NoVersion]

Request(type, payload) ==
  [channel_id |-> 1, channel_type |-> type, payload |-> payload]

EndpointSymmetry == Permutations(Endpoint)

\* Bound: a client that closed and then opens again is not followed further.
NoReconnect ==
  \A e \in Endpoint : ~(/\ "ConnectionClosed" \in client_seen[e].types
                        /\ clients[e].connection_state = "HandshakeSent")

NoScript == << >>
Unordered2 == << Request("ReliableUnordered", "a"), Request("ReliableUnordered", "b") >>
Ordered2 == << Request("ReliableOrdered", "a"), Request("ReliableOrdered", "b") >>
ServerOne == << Request("ReliableUnordered", "x") >>
Unordered4 == Unordered2 \o << Request("ReliableUnordered", "c"), Request("ReliableUnordered", "d") >>
=============================================================================
