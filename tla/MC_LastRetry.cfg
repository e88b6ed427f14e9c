SPECIFICATION FairSpec
CONSTANTS
  Half = 4
  AckBitsWindow = 2
  ReliableWindowSize = 2
  ConnId = {0, 1, 2, 3, 4}
  ChannelId = {0, 1}
  Payload = {"none", "a", "b", "x"}
  NoPayload = "none"
  VersionOf <- NoVersions
  MaxRetransmitCount = 2
  FastRetxEvidenceThreshold = 2
  EnableActivityAckOnly = FALSE
  Deadlines = {"idle", "reliable_ack", "probe", "rto"}
  Endpoint = {e1}
  InitialRto = 3
  MaxRto = 6
  KeepaliveIdle = 3
  IdleTimeout = 9
  AckDelay = 1
  HandshakeLinger = 3
  MaxDelay = 0
  MaxLosses = 0
  BurstLimit = 0
  LossesEnd = FALSE
  ClientScript <- NoScript
  ServerScript <- NoScript
  ClientInitialSeq = 2
  ServerInitialSeq = 3
  SendStates = {"Established"}
  MayClose = FALSE
PROPERTY GivesUpAfterTimeout
