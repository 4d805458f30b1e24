CONSTANTS
    Documents <- MCDocuments
    SelectorChoices <- MCSelectorChoices
    SkipChoices <- MCNoSkip
SPECIFICATION Spec
INVARIANT WalkEmitsSelectedLeaves
\* The loop ends after the last top-level field.
CHECK_DEADLOCK FALSE
