SPECIFICATION FairSpec
CONSTANTS
    Members = {m1, m2}
    m1 = m1
    m2 = m2
    Partitions = {p1, p2}
    p1 = p1
    p2 = p2
    MaxRecords = 1
    MaxGeneration = 3
    MaxCrashes = 1
INVARIANT TypeOK
INVARIANT CommittedPublished
INVARIANT BufferIsItsRange
INVARIANT ReadyMeansAppliedUnlessRewound
PROPERTY CommitsOnlyAdvance
PROPERTY RecordsCommitted
PROPERTY GatesReopen
