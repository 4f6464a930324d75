CONSTANTS
    Confidences <- MCConfidences
    MaxSentences = 2
    MaxAsks = 3
SPECIFICATION Spec
PROPERTY TapOutsideDismisses
CHECK_DEADLOCK FALSE
