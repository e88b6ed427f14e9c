--------------------------- MODULE MC_TimedSystem ---------------------------
EXTENDS TimedSystem

NoVersions == [p \in Payload |-> NoVersion]

Request(type, payload) ==
  [channel_id |-> 1, channel_type |-> type, payload |-> payload]

NoScript == << >>
ClientOne == << Request("ReliableUnordered", "a") >>
ClientTwo == << Request("ReliableUnordered", "a"), Request("ReliableUnordered", "b") >>
OrderedOne == << Request("ReliableOrdered", "a") >>
Mixed == OrderedOne \o << Request("ReliableUnordered", "b"), Request("ReliableOrdered", "c") >>
ClientThree == ClientTwo \o << Request("ReliableUnordered", "c") >>
Stream == ClientThree \o << Request("ReliableUnordered", "d") >>
ServerOne == << Request("ReliableUnordered", "x") >>
ServerTwo == ServerOne \o << Request("ReliableUnordered", "y") >>
=============================================================================
