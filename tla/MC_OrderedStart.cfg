SPECIFICATION Spec
CONSTANTS
  Half = 4
  AckBitsWindow = 2
  ReliableWindowSize = 2
  ConnId = {0, 1}
  ChannelId = {0, 1}
  Payload = {"none", "a", "b", "x"}
  NoPayload = "none"
  VersionOf <- NoVersions
  MaxRetransmitCount = 2
  FastRetxEvidenceThreshold = 1
  EnableActivityAckOnly = FALSE
  Deadlines = {"rto", "reliable_ack"}
  Endpoint = {"e1"}
  ClientScript <- Ordered2
  ServerScript <- NoScript
  ClientInitialSeqs = {2}
  ServerInitialSeqs = {3}
  SendStates = {"Established"}
  MayClose = FALSE
INVARIANTS
  OrderedPrefix
