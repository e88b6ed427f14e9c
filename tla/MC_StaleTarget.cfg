SPECIFICATION Spec
CONSTANTS
  Half = 4
  AckBitsWindow = 2
  ReliableWindowSize = 2
  ConnId = {0, 1, 2}
  ChannelId = {0, 1}
  Payload = {"none", "a"}
  NoPayload = "none"
  VersionOf <- NoVersions
  MaxRetransmitCount = 1
  FastRetxEvidenceThreshold = 1
  EnableActivityAckOnly = FALSE
  Deadlines = {"idle", "rto"}
  Endpoint = {e1}
  Inbound <- ClientPackets
  InitialSeqs = {3}
  Channels <- TwoChannels
  MaxQueued = 1
SYMMETRY EndpointSymmetry
INVARIANTS
  PreferredIsLive
