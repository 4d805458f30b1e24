CONSTANTS
    p1 = p1
    p2 = p2
    i1 = i1
    Payloads <- MCPayloads
    Indexes <- MCIndexes
    BootOptions <- MCBootAny
    MaxCrashes <- MCMaxCrashes
SYMMETRY PayloadSymmetry
SPECIFICATION Spec
INVARIANT StartsOnCompleteDb
\* A process whose load_snapshot bails stays down.
CHECK_DEADLOCK FALSE
