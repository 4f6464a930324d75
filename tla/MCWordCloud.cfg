CONSTANTS
    calm = calm
    hike = hike
    everything = everything
    Width = 3
    Height = 2
    Unit = 2
    Words <- MCWords
    DrawingsOf <- MCDrawingsOf
SPECIFICATION Spec
INVARIANTS
    TypeOK
    WordsApart
    WordsWhole
PROPERTY DropsExplained
CHECK_DEADLOCK FALSE
