CONSTANTS
    Classes <- MCClasses
    Parent <- MCParent
    NoParent = NoParent
    Own <- MCOwn
    OwnParams <- MCOwnParams
    OwnParamQuals <- MCNoParamQuals
    Abstract <- MCAbstract
    RecordOrder <- MCRecordOrder
    CSize = 2
    RSize = 2
    Providers <- MCProviders
    Assocs <- MCAssocs
    FilterClasses = {}
    Requests <- MCRequests
    MaxRequests = 4
    Garbage = Garbage
    Stores <- MCAllStores
    Dummy = Dummy
SPECIFICATION Spec
INVARIANTS
    TypeOK
    CachesAreLRU
    RCacheHoldsResolved
CHECK_DEADLOCK FALSE
