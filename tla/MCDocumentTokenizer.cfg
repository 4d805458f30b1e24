CONSTANTS
    Fields <- MCFields
    FieldIdLimit <- MCFieldIdLimit
    MaxDistance <- MCMaxDistance
    MaxPositions <- MCMaxPositions
    PositionLimit <- MCPositionLimit
    MaxTokens <- MCMaxTokens
    MaxLeaves <- MCMaxLeaves
SPECIFICATION Spec
INVARIANT TypeOK
INVARIANT LeavesKeptApart
INVARIANT WithinMaxPositions
\* tokenize_document returns after its last leaf or its first error.
CHECK_DEADLOCK FALSE
