CONSTANTS
    Confidences <- MCConfidences
    MaxSentences = 2
    MaxAsks = 3
SPECIFICATION Spec
INVARIANTS
    TypeOK
    ScoreInRange
    SavedAsTapped
    BlurOnlyUnderPopup
CHECK_DEADLOCK FALSE
