CONSTANTS
    SFCB_DEBUG = TRUE
    Calls <- MCCharsCalls
    NoClass = NoClass
    NoParam = NoParam
    NULLP = NULLP
SPECIFICATION Spec
INVARIANT InvokedAsDeclared
CHECK_DEADLOCK FALSE
