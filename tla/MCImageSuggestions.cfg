CONSTANTS
    r1 = r1
    r2 = r2
    a1 = a1
    a2 = a2
    a3 = a3
    sea = sea
    hill = hill
    none = none
    Requests <- MCRequests
    Assets <- MCAssets
    Words <- MCWords
    PhrasesOf <- MCPhrasesOf
    TagsOf <- MCTagsOf
    NoRequest = none
    NoAsset = none
SPECIFICATION FairSpec
INVARIANTS
    TypeOK
    GroupCountsOutstanding
    AnswerExact
PROPERTIES
    ServicePromise
