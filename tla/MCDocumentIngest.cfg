CONSTANTS
    Requests <- MCRequests
    RegisterFailures <- MCRegisterFailures
    MaxCrashes <- MCOneCrash
    DeleteErrors = TRUE
SPECIFICATION Spec
INVARIANT NoDanglingContent
\* The handlers return and the scheduler stops once every task is cleaned.
CHECK_DEADLOCK FALSE
