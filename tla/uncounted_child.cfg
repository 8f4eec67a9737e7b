CONSTANTS
    HMax <- MCHMax
    MaxConns <- MCMaxConns
    KeepaliveMax <- MCKeepaliveMax
    KeepaliveTimeout <- MCKeepaliveTimeout
    HdrBufsize <- MCHdrBufsize
    PayloadLens <- MCPayloadLens
    ReqsPerConn <- MCReqsPerConn
    Clients <- MCClients
SPECIFICATION Spec
PROPERTY DrainedAtStop
CHECK_DEADLOCK FALSE
