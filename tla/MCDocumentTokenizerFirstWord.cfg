CONSTANTS
    Fields <- MCOneField
    FieldIdLimit <- MCFieldIdLimit
    MaxDistance <- MCMaxDistance
    MaxPositions <- MCMaxPositions
    PositionLimit <- MCPositionLimit
    MaxTokens <- MCStringTokens
    MaxLeaves <- MCOneLeaf
SPECIFICATION Spec
INVARIANT FirstWordAtStart
CHECK_DEADLOCK FALSE
