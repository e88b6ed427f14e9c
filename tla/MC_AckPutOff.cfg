SPECIFICATION Spec
CONSTANTS
  Half = 8
  AckBitsWindow = 4
  ReliableWindowSize = 4
  ConnId = {0, 1, 2}
  ChannelId = {0, 1}
  Payload = {"none", "a", "b", "c", "d"}
  NoPayload = "none"
  VersionOf <- NoVersions
  MaxRetransmitCount = 2
  FastRetxEvidenceThreshold = 2
  EnableActivityAckOnly = FALSE
  Deadlines = {"idle", "reliable_ack", "probe", "rto"}
  Endpoint = {e1}
  InitialRto = 3
  MaxRto = 3
  KeepaliveIdle = 5
  IdleTimeout = 9
  AckDelay = 1
  HandshakeLinger = 3
  MaxDelay = 0
  MaxLosses = 0
  BurstLimit = 0
  LossesEnd = TRUE
  ClientScript <- Stream
  ServerScript <- NoScript
  ClientInitialSeq = 2
  ServerInitialSeq = 3
  SendStates = {"Established"}
  MayClose = FALSE
INVARIANT NoSpuriousTimeout
