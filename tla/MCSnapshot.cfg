CONSTANTS
    p1 = p1
    p2 = p2
    i1 = i1
    Payloads <- MCPayloads
    Indexes <- MCIndexes
    BootOptions <- MCBootStrict
    MaxCrashes <- MCMaxCrashes
SPECIFICATION Spec
INVARIANT SnapshotFileComplete
INVARIANT TasksHavePayloads
INVARIANT StartsOnCompleteDb
SYMMETRY PayloadSymmetry
\* A process whose load_snapshot bails stays down.
CHECK_DEADLOCK FALSE
