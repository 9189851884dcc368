\* A Boolean query that more documents satisfy than were asked for.
SPECIFICATION Spec
CONSTANTS
    N = 3
    Width = 2
    Scores = {1, 2}
    Asked = {1}
    MaxSurplus = 2
    MaxAdds = 3
    MaxSearches = 1
CHECK_DEADLOCK FALSE
PROPERTY
    BooleanSeesAll
