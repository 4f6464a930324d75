CONSTANTS
    alice = alice
    bob = bob
    d1 = d1
    d2 = d2
    nobody = nobody
    Users <- MCUsers
    DocIDs <- MCDocIDs
    NoUser = nobody
    MaxDeletes = 2
SPECIFICATION FairSpec
INVARIANTS
    TypeOK
    OrphansExplained
    LossesExplained
PROPERTIES
    DeletedStaysDeleted
    PictureArrives
