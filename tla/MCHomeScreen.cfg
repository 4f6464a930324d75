CONSTANTS
    alice = alice
    bob = bob
    nobody = nobody
    walk = walk
    Users <- TwoUsers
    NoUser = nobody
    Scores <- MCScores
    Tags <- MCTags
    FirstDiaries <- NewDiaries
    Week = 0
    MaxTime = 1
    MaxDiary = 1
    MaxVisits = 2
    MaxSigns = 2
SPECIFICATION Spec
SYMMETRY Symmetry
INVARIANTS
    TypeOK
    SupportFollowsTrends
    ChartOnlyBehindLastTrends
    HomeIsOwn
    ScreenMatchesAccount
