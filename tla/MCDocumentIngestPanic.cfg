CONSTANTS
    Requests <- MCRequests
    RegisterFailures <- MCRegisterPanics
    MaxCrashes <- MCNoCrash
    DeleteErrors = FALSE
SPECIFICATION Spec
INVARIANT NoOrphanPayload
CHECK_DEADLOCK FALSE
