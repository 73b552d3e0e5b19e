SPECIFICATION FairSpec
CONSTANTS
    s1 = s1
    s2 = s2
    Servers = {s1, s2}
    Survivors = {s2}
    MaxKey = 3
    Foreign = {3}
    Batches <- MCBatches
    Lifetime = 1
    PageSize = 1
    MaxAttempts = 2
    MaxErrors = 2
    MaxDeploys = 2
    MaxTime = 2
PROPERTY ImplementsBaseStorage
