SPECIFICATION FairSpec
CONSTANTS
    Compactors = {c1}
    c1 = c1
    Window = 3
    MaxRecords = 2
    MaxCrashes = 1
    MaxFailures = 1
    MaxHorizon = 2
    PromptPublish = TRUE
INVARIANT TypeOK
INVARIANT CommittedDurable
INVARIANT CopiesBoundedByCrashes
PROPERTY EverythingCommitted
PROPERTY PassesCompleteUnlessStuck
PROPERTY OrphansReclaimed
