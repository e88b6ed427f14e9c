SPECIFICATION MCSpec
CONSTANTS
  Half = 3
  AckBitsWindow = 2
  ReliableWindowSize = 2
  ConnId = {0, 1, 2}
  ChannelId = {0, 1}
  Payload = {"none", "a"}
  NoPayload = "none"
  VersionOf <- NoVersions
  MaxRetransmitCount = 1
  FastRetxEvidenceThreshold = 1
  EnableActivityAckOnly = TRUE
  Deadlines = {"idle", "reliable_ack", "activity_ack", "probe", "rto"}
  Inbound <- AllInbound
  Requests <- WindowRequests
  InitialSeqs <- AllInitialSeqs
  MaxPendingSend = 1
  MaxEvents = 1
INVARIANTS
  TypeOK
  InflightInWindow
  InflightNotAcked
  OrderedConsecutive
  NothingDeliverableBuffered
  RoleDiscipline
