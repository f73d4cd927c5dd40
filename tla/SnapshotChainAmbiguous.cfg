CONSTANTS
    Builders = {b}
    Compactors = {c}
    k1 = k1
    k2 = k2
    Keys = {k1, k2}
    Slots = {0, 1}
    Flushed <- Rewritten
    Compacted <- Output
    Retain = 2
    MaxAttempts = 2
    AmbiguousPut = TRUE
    MaxGeneration = 2
SPECIFICATION Spec
PROPERTY EveryAdditionLandsOnce
