CONSTANTS
    Kinds <- MCKinds
    Names <- MCNames3
    InputData <- MCInputData3
    NameSpace <- MCNameSpace
    ClassName <- MCClassName
    ParentName <- MCParentName
    MaxOps <- MCMaxOps
    GetIds <- MCGetIds
    Unset = Unset
    NullRead = NullRead
    Garbage = Garbage
    QualNames <- MCQualNames
    QualInput <- MCQualInput
    ClassSpecial <- MCClassSpecial
    PropSpecial <- MCPropSpecial
    MethodNames <- MCMethodNames
    ParamNames <- MCParamNames
    MethodTypes <- MCMethodTypes
    RefNames <- MCRefNames
    PathNames <- MCPathNames
    SizeofHdr <- MCSizeofHdr
    SizeofProperty = 48
    SizeofQualifier = 24
    SizeofMethod = 48
    SizeofParameter = 40
    SizeofStrBuf = 32
    SizeofArrayBuf = 40
    CLALIGN = 8
    CLEXTRA = 4
SPECIFICATION ObjSpec
INVARIANTS
    ObjTypeOK
    PropertyValuesResolve
    DistinctEntryOffsets
    StringIdsResolve
    RebuildExact
    XmlValuesReadBack
    ClassXmlQualifiers
CHECK_DEADLOCK FALSE
