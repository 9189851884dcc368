\* A collection without a document: is the chain quiet when it is deleted?
SPECIFICATION Spec
CONSTANTS
    Sources = {s1}
    w1 = w1
    v1 = v1
    v2 = v2
    Main = Main
    NoThread = NoThread
    MaxSupply = 0
    Crew <- OneStage
INVARIANT
    AllProducersDone
