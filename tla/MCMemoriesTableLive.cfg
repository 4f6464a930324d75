CONSTANTS
    alice = alice
    bob = bob
    d1 = d1
    d2 = d2
    nobody = nobody
    Users <- OneUser
    DocIDs <- TwoDocs
    NoUser = nobody
    MaxDeletes = 1
    Pictures <- NoPictures
    MaxSaves = 2

SPECIFICATION FairSpec
PROPERTY SaveIsNotDropped
