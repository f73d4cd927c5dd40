SPECIFICATION Spec
CONSTANTS
    Compactors = {c1}
    c1 = c1
    Window = 3
    MaxRecords = 2
    MaxCrashes = 0
    MaxFailures = 0
    MaxHorizon = 2
    PromptPublish = TRUE
INVARIANT SolePassNeverRefused
