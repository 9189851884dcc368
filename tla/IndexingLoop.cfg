\* Documents with and without terms, and empty files; texts are kept in the index.
SPECIFICATION LoopSpec
CONSTANTS
    cat = cat
    dog = dog
    tag = tag
    Words = {cat, dog}
    Tags = {tag}
    Input <- Everything
    MaxInput = 5
    Compressing = TRUE
    HeaderLength = 33
CHECK_DEADLOCK FALSE
INVARIANTS
    LoopTypes
    TextsInStep
PROPERTY
    ImplementsCollection
