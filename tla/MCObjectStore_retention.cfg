SPECIFICATION FairSpec
CONSTANTS
    main = main
    staging = staging
    a = a
    b = b
    Threads = {th1, th2}
    Stores = {main}
    Address <- Addresses
    Keys = {a, b}
    Setup <- SetupTwo
    SetupKeys <- KeysTwo
    Ids = {1, 2}
    Times = {0, 2}
    Sizes = {2}
    Budgets <- TheBudgets
    Ops = {"pushOwned", "pushLazy", "evictBefore", "evictAllBefore",
           "setRetentionBudget", "entryTimestamps"}
    MaxSeries = 2
    MaxCalls = 4
    MaxPushed = 3
INVARIANTS
    LookupsConsistent
    NoRace
PROPERTIES
    RetentionExact
    AllCallsFinish
CHECK_DEADLOCK FALSE
