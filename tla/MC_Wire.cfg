SPECIFICATION Spec
CONSTANTS
    ByteValues = 4
    Headers <- MCHeaders
    Payloads <- MCPayloads
    Foreign <- MCForeign
    Short <- MCShort
    SocketBufferSize = 30
    MaxSent = 1
    MaxUnderWay = 2
INVARIANT ReceivedAsSent
