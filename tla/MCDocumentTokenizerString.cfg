CONSTANTS
    Fields <- MCOneField
    FieldIdLimit <- MCFieldIdLimit
    MaxDistance <- MCMaxDistance
    MaxPositions <- MCMaxPositions
    PositionLimit <- MCSmallPositionLimit
    MaxTokens <- MCStringTokens
    MaxLeaves <- MCOneLeaf
SPECIFICATION Spec
INVARIANT SeparatorProximity
\* tokenize_document returns after its last leaf or its first error.
CHECK_DEADLOCK FALSE
