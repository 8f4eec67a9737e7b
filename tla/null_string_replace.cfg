CONSTANTS
    Kinds <- MCKind
    Names <- MCNames
    InputData <- MCNullInputData
    NameSpace <- MCNameSpace
    ClassName <- MCClassName
    MaxOps <- MCMaxOps4
    GetIds <- MCGetIdsBelow
    Unset = Unset
    NullRead = NullRead
    Garbage = Garbage
    ParentName <- MCParentName
    QualNames <- MCQualNames
    QualInput <- MCQualInput
    ClassSpecial <- MCClassSpecial
    PropSpecial <- MCPropSpecial
    MethodNames <- MCMethodNames
    ParamNames <- MCParamNames
    MethodTypes <- MCMethodTypes
    RefNames <- MCRefNames
    PathNames <- MCPathNames
    SizeofHdr <- MCSizeofHdr
    SizeofProperty = 48
    SizeofQualifier = 24
    SizeofMethod = 48
    SizeofParameter = 40
    SizeofStrBuf = 32
    SizeofArrayBuf = 40
    CLALIGN = 8
    CLEXTRA = 4
SPECIFICATION ObjSpec
INVARIANT NoIndexOutOfBounds
CHECK_DEADLOCK FALSE
