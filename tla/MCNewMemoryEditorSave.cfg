CONSTANTS
    Confidences <- MCConfidences
    MaxSentences = 2
    MaxAsks = 3
SPECIFICATION Spec
INVARIANT SaveDisabledWhileEditing
CHECK_DEADLOCK FALSE
