CONSTANTS
    Requests <- MCRequests
    RegisterFailures <- MCRegisterError
    MaxCrashes <- MCNoCrash
    DeleteErrors = FALSE
SPECIFICATION Spec
INVARIANT RegisterErrorAnswered
CHECK_DEADLOCK FALSE
