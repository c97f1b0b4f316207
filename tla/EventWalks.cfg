SPECIFICATION WalkFairSpec
CONSTANTS
    Id = {1, 2, 3, 4}
    Graphs <- MCGraphs
    Depths <- MCDepths
    Limits = {1, 2, 4}
    MinDepths = {0, 1}
    Rooms = {{1, 2, 3, 4}, {1, 3, 4}}
    MaxStarts = 2
    MaxEarliest = 1
INVARIANTS
    WalkTypeOK
    AnsweredWasAsked
    NothingMissed
PROPERTY
    WalkEnds
