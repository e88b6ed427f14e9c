SPECIFICATION FairSpec
CONSTANTS
  Half = 4
  AckBitsWindow = 2
  ReliableWindowSize = 2
  ConnId = {0, 1, 2, 3, 4, 5, 6}
  ChannelId = {0, 1}
  Payload = {"none", "a", "b", "x"}
  NoPayload = "none"
  VersionOf <- NoVersions
  MaxRetransmitCount = 2
  FastRetxEvidenceThreshold = 2
  EnableActivityAckOnly = FALSE
  Deadlines = {"idle", "reliable_ack", "probe", "rto"}
  Endpoint = {e1}
  InitialRto = 5
  MaxRto = 5
  KeepaliveIdle = 3
  IdleTimeout = 7
  AckDelay = 1
  HandshakeLinger = 3
  MaxDelay = 0
  MaxLosses = 0
  BurstLimit = 0
  LossesEnd = TRUE
  ClientScript <- ClientOne
  ServerScript <- NoScript
  ClientInitialSeq = 2
  ServerInitialSeq = 3
  SendStates = {"Closed", "HandshakeSent"}
  MayClose = FALSE
PROPERTY LosslessConnects
