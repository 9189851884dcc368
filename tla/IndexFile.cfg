CONSTANTS
    Word = 256
    static_prune_point = 3
    schemes_to_use = {2}
    B_TREE_PREFIX_SIZE = 2
    Tilde = 3
    Length <- MCLength
    TrimPoint <- MCTrimPoint
    Collections <- MCCollections
    HASH_TABLE_SIZE = 2
    Hash <- MCHash
    Modes <- MCModes
    StopList <- MCStopList
    MaxDf = 2
    MaxProportion = 100
    Asked <- MCAsked
    Ks = {1, 3}
SPECIFICATION Spec
INVARIANTS TypeOK LengthsRead
PROPERTIES ImplementsIndex
