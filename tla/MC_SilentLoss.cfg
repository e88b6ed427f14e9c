SPECIFICATION Spec
CONSTANTS
  Half = 8
  AckBitsWindow = 4
  ReliableWindowSize = 4
  ConnId = {0, 1}
  ChannelId = {0, 1}
  Payload = {"none", "a", "b", "c", "d"}
  NoPayload = "none"
  VersionOf <- NoVersions
  MaxRetransmitCount = 2
  FastRetxEvidenceThreshold = 1
  EnableActivityAckOnly = FALSE
  Deadlines = {"rto", "reliable_ack"}
  Endpoint = {"e1"}
  ClientScript <- Unordered4
  ServerScript <- NoScript
  ClientInitialSeqs = {2}
  ServerInitialSeqs = {3}
  SendStates = {"Established"}
  MayClose = FALSE
INVARIANTS
  NoSilentLoss
