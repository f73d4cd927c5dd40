SPECIFICATION Spec
CONSTANTS
    Compactors = {c1, c2}
    Partitions = {p1, p2}
    Tenant <- Tenants
    Deletable <- FirstRecords
    MaxRecords = 2
    MaxGeneration = 1
    MaxCrashes = 1
SYMMETRY Symmetric
INVARIANT TypeOK
INVARIANT CompactedMeansListed
INVARIANT LagIsExplained
PROPERTY ImplementsHandover
