CONSTANTS
    IDSpace = 3
    MaxDraws = 4
    MaxBatch = 2
    OwnIDs <- SomeOwnIDs
    StrayIDs <- SomeStrayIDs
SPECIFICATION Spec
INVARIANTS
    OwnResponse
    CorrelationExact
