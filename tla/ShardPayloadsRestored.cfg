CONSTANTS
    Writers = {w1, w2}
    Slots = {s1}
    Contents = {c1, c2}
    None = None
    Retain = 3
    SweepInterval = 2
    PublishTimeout = 1
    Grace = 3
    SweepBudget = 1
    FreshVersions = FALSE
    MaxGeneration = 4
SPECIFICATION Spec
SYMMETRY Symmetric
INVARIANT EveryRetainedPayloadIntact
