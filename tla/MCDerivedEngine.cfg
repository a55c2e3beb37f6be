SPECIFICATION Spec
CONSTANTS
    x = x
    y = y
    z = z
    NumSources = 1
    Writers = {"w1"}
    Batches <- TheBatches
    MinTime = 0
    NameLists <- OneOrTwo
    Names <- TheNames
    Ops = {"diff"}
    MaxNodes = 3
    MaxTopics = 4
    MaxRows = 2
    MaxRecomputes = 1
CONSTRAINT Joins
SYMMETRY AnyName
INVARIANTS
    GraphConsistent
    SequentialContract
    UpToDate
