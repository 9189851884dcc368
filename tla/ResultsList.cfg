\* Four documents in rows of two; lists of one, of three, of all, and of more than all.
SPECIFICATION Spec
CONSTANTS
    N = 4
    Width = 2
    Scores = {1, 2}
    Asked = {1, 3, 4, 5}
    MaxSurplus = 0
    MaxAdds = 5
    MaxSearches = 2
CHECK_DEADLOCK FALSE
INVARIANTS
    TypeOK
    RowsAgree
    HeapOrdered
    HoldsBest
PROPERTY
    ImplementsTopK
