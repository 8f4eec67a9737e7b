CONSTANTS
    Classes <- MCClasses
    Parent <- MCParent
    NoParent = NoParent
    Own <- MCOwn
    OwnParams <- MCOwnParams
    OwnParamQuals <- MCParamQuals
    Abstract <- MCAbstractB
    RecordOrder <- MCRecordOrder
    CSize = 2
    RSize = 2
    Providers <- MCProviders
    Assocs <- MCAssocs
    FilterClasses = {}
    Requests <- MCRequests
    MaxRequests = 4
    Garbage = Garbage
    Stores <- MCGoodStores
    Dummy = Dummy
SPECIFICATION Spec
PROPERTY
    ServiceRefinement
CHECK_DEADLOCK FALSE
