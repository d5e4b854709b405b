SPECIFICATION FairSpec
CONSTANTS
    w1 = w1
    w2 = w2
    slow = slow
    fast = fast
    Unset = Unset
    Worker <- MCWorker
    Host <- MCHost
    RegistryInterval <- MCInterval
    DefaultInterval = 1
    MaxLag = 1
    MaxRetries = 1
    Backoff <- MCBackoff
    Gets = 3
    LastStart = 1
    MaxTime = 6
INVARIANTS
    TypeOK
    SlotsSpaced
    FirstAttemptsSpaced
    WaitsOnlyForOwnHost
    BacklogBounded
PROPERTY EveryGetEnds
