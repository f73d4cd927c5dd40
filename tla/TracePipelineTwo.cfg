SPECIFICATION Spec
CONSTANTS
    Compactors = {c1, c2}
    c1 = c1
    c2 = c2
    Window = 3
    MaxRecords = 3
    MaxCrashes = 0
    MaxFailures = 0
    MaxHorizon = 1
    PromptPublish = TRUE
SYMMETRY Symmetry
INVARIANT CommittedDurable
INVARIANT CopiesBoundedByCrashes
INVARIANT PublishedObjectsExist
