\* Two producers and two consumers on a ring of two slots: the ring wraps, both
\* ends contend for the mutex, and each kind of thread finds the ring against it.
SPECIFICATION FairSpec
CONSTANTS
    Producers = {p1, p2}
    Consumers = {c1, c2}
    Object = {a, b}
    QueueLength = 2
    NoThread = NoThread
INVARIANTS
    TypeOK
    PlacesConserved
    RingConsistent
PROPERTIES
    ImplementsQueue
    KeepsMoving
