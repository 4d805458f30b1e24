CONSTANTS
    Documents <- MCDocuments
    SelectorChoices <- MCSelectorChoices
    SkipChoices <- MCSkipChoices
SPECIFICATION Spec
INVARIANT WalkEmitsSelectedLeaves
\* The loop ends after the last top-level field.
CHECK_DEADLOCK FALSE
