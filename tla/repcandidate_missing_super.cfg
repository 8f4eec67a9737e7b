CONSTANTS
    Classes <- MCClasses
    Parent <- MCParentMissing
    NoParent = NoParent
    Own <- MCOwn
    OwnParams <- MCOwnParams
    OwnParamQuals <- MCNoParamQuals
    Abstract <- MCAbstract
    RecordOrder <- MCRecordOrder
    CSize = 2
    RSize = 2
    Providers = {}
    Assocs <- MCAssocs
    FilterClasses = {}
    Requests <- MCRequests
    MaxRequests = 4
    Garbage = Garbage
    Stores <- MCGoodStores
    Dummy = Dummy
SPECIFICATION Spec
INVARIANT CachedObjectsLive
CHECK_DEADLOCK FALSE
