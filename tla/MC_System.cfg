SPECIFICATION MCSpec
CONSTANTS
  Half = 4
  AckBitsWindow = 2
  ReliableWindowSize = 2
  ConnId = {0, 1, 2, 3}
  ChannelId = {0, 1}
  Payload = {"none", "a", "b", "x"}
  NoPayload = "none"
  VersionOf <- NoVersions
  MaxRetransmitCount = 1
  FastRetxEvidenceThreshold = 1
  EnableActivityAckOnly = FALSE
  Deadlines = {"idle", "rto", "reliable_ack"}
  Endpoint = {e1, e2}
  ClientScript <- Unordered2
  ServerScript <- ServerOne
  ClientInitialSeqs = {2}
  ServerInitialSeqs = {3}
  SendStates = {"Established"}
  MayClose = TRUE
SYMMETRY EndpointSymmetry
INVARIANTS
  IndexesAgree
  HandshakeAgreement
  AckWithinSent
  DeliveredOnce
  NothingInvented
  NoSilentLoss
  CloseIsKnown
