\* Collections of no document to two, in two sources; a compressing thread and two
\* preindexing threads behind it.
SPECIFICATION FairSpec
CONSTANTS
    Sources = {s1, s2}
    w1 = w1
    v1 = v1
    v2 = v2
    Main = Main
    NoThread = NoThread
    MaxSupply = 1
    Crew <- TwoStages
INVARIANTS
    TypeOK
    EndsCounted
    QuietAtEnd
PROPERTIES
    ImplementsIterator
    Terminates
    ThreadsEnd
