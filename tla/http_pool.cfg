CONSTANTS
    HMax <- MCHMax
    MaxConns <- MCMaxConns
    KeepaliveMax <- MCKeepaliveMax
    KeepaliveTimeout <- MCKeepaliveTimeout
    HdrBufsize <- MCHdrBufsize
    PayloadLens <- MCPayloadLens
    ReqsPerConn <- MCReqsPerConn
    Clients <- MCClients
SPECIFICATION Spec
INVARIANT TypeOK
INVARIANT DistinctSlots
INVARIANT NeverOutOfSlots
INVARIANT RequestsInSync
PROPERTY DrainTerminates
PROPERTY PoolRefinement
PROPERTY ProcessorsEnd
CHECK_DEADLOCK FALSE
