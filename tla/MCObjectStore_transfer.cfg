SPECIFICATION FairSpec
CONSTANTS
    main = main
    staging = staging
    a = a
    b = b
    Threads = {th1, th2}
    Stores = {main, staging}
    Address <- Addresses
    Keys = {a, b}
    Setup <- SetupTransfer
    SetupKeys <- KeysTransfer
    Ids = {1, 2}
    Times = {0, 1}
    Sizes = {1}
    Budgets = {}
    Ops = {"pushOwned", "flushTo", "registerTopic", "removeTopic", "clear", "latestAt"}
    MaxSeries = 4
    MaxCalls = 4
    MaxPushed = 3
INVARIANTS
    SeriesConsistent
    NoRace
PROPERTIES
    FlushAllOrNothing
    AllCallsFinish
CHECK_DEADLOCK FALSE
