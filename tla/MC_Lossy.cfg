SPECIFICATION MCFairSpec
CONSTANTS
  Half = 4
  AckBitsWindow = 2
  ReliableWindowSize = 2
  ConnId = {0, 1, 2, 3, 4}
  ChannelId = {0, 1}
  Payload = {"none", "a", "b", "c", "x"}
  NoPayload = "none"
  VersionOf <- NoVersions
  MaxRetransmitCount = 2
  FastRetxEvidenceThreshold = 2
  EnableActivityAckOnly = FALSE
  Deadlines = {"idle", "reliable_ack", "probe", "rto"}
  Endpoint = {e1}
  InitialRto = 2
  MaxRto = 4
  KeepaliveIdle = 2
  IdleTimeout = 5
  AckDelay = 1
  HandshakeLinger = 1
  MaxDelay = 0
  MaxLosses = 0
  BurstLimit = 9
  LossesEnd = FALSE
  ClientScript <- ClientThree
  ServerScript <- ServerOne
  ClientInitialSeq = 2
  ServerInitialSeq = 3
  SendStates = {"Established"}
  MayClose = TRUE
INVARIANT NoStorm
PROPERTIES
  ImplementsChannel
  ServerPayloadResolved
  HandshakeResolves
  CloseEnds
