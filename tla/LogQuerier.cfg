SPECIFICATION Spec
CONSTANTS
    Partitions = {p1}
    Requests = {r1, r2}
    MaxRecords = 1
    MaxVersion = 3
SYMMETRY Symmetric
INVARIANT TypeOK
INVARIANT CacheKeepsUp
INVARIANT AnswersAreComplete
