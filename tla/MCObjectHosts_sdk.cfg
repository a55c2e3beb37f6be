SPECIFICATION Spec
CONSTANTS
    Primary = primary
    Secondary = secondary
    Datasets = {1, 2}
    EngineDatasets = {1}
    SourceDataset = 1
    Names = {"a", "b"}
    BoundName = "a"
    Times = {1, 3}
    Budgets <- TheBudgets
    Readers = {r1}
    SdkView = TRUE
    MaxCalls = 3
    MaxSeries = 4
    MaxPushes = 2
INVARIANTS
    DestroyedExactlyOnce
CHECK_DEADLOCK FALSE
