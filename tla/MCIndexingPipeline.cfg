CONSTANTS
    Keys <- MCKeys
    DocIds <- MCDocIds
    Cap <- MCCap
SPECIFICATION Spec
INVARIANT TypeOK
INVARIANT NoLostUpdate
CHECK_DEADLOCK FALSE
