CONSTANTS
    Word = 256
    static_prune_point = 3
    schemes_to_use = {2}
    B_TREE_PREFIX_SIZE = 2
    Tilde = 9
    Length <- MCLength
    TrimPoint <- MCTrimPoint
    FilenamesStart <- MCFilenamesStart
    FilenamesFinish <- MCFilenamesFinish
    FilenamesIndexStart <- MCFilenamesIndexStart
    FilenamesIndexFinish <- MCFilenamesIndexFinish
    DocumentOffsets <- MCDocumentOffsets
    DocumentLongest <- MCDocumentLongest
    Stemmer <- MCStemmer
    Merges <- MCMerges
    Options <- MCOptions
    StopList <- MCStopList
    MaxDf = 2
    MaxProportion = 90
    Digits = {7}
    Uppercase = {8}
    Asked <- MCAsked
    Ks = {1, 3}
SPECIFICATION Spec
INVARIANTS TypeOK DocumentsInStep
PROPERTIES ImplementsMergedIndex
