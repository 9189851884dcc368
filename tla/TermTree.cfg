\* One inserter: the default build, with a reader and without rebalancing, and the
\* build that rebalances without a reader.
SPECIFICATION FairSpec
CONSTANTS
    NULL = NULL
    Dummy = Dummy
    Terms = {1, 2, 3, 4}
    Inserters = {main}
    Readers = {w1}
    Builds <- Safe
INVARIANTS
    TypeOK
    SearchTree
    PostingsInTree
    ReadersSafe
    BalancedLow
PROPERTY
    FindEnds
