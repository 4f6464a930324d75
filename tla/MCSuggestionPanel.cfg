CONSTANTS
    long = long
    short = short
    dull = dull
    p1 = p1
    p2 = p2
    p3 = p3
    Requests <- MCRequests
    Assets <- MCAssets
    Words <- MCWords
    PhrasesOf <- MCPhrasesOf
    TagsOf <- MCTagsOf
    Slots = 2
    Library = {own}
    Placeholder = Placeholder
    NoImage = NoImage
    NoRequest = NoRequest
SPECIFICATION FairSpec
INVARIANTS
    TypeOK
    PanelIsForText
    PanelOffersPhotos
    SavedPictureIsChoice
PROPERTY TextGetsItsPhotos
CHECK_DEADLOCK FALSE
