\* Split codes, long lists and failing allocations.
SPECIFICATION FairSpec
CONSTANT
    Workloads <- Uses
CHECK_DEADLOCK FALSE
INVARIANTS
    TypeOK
    ListsAgree
    SerialisedFaithfully
PROPERTIES
    ImplementsList
    SerialisationEnds
