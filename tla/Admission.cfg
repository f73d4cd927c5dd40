SPECIFICATION FairSpec
CONSTANTS
    r1 = r1
    r2 = r2
    r3 = r3
    a = a
    b = b
    Requests = {r1, r2, r3}
    Tenants = {a, b}
    TenantOf <- TenantsOfRequests
    Resources = {"requests", "bytes"}
    Size <- SizesOfRequests
    Limits <- TwoLimits
    Override <- LargeOverride
    UsizeMax = 3
    Batches <- LargeTwice
    MaxReloads = 1
INVARIANT TypeOK
INVARIANT UsageIsExact
INVARIANT WorkWithinLimits
INVARIANT SleepersHaveAWaker
PROPERTY EveryRequestEnds
CHECK_DEADLOCK FALSE
