SPECIFICATION Spec
CONSTANTS
    main = main
    staging = staging
    w1 = w1
    w2 = w2
    t1 = t1
    Engines = {main, staging}
    Topics = {t1}
    Writers = {w1, w2}
    EngineOf <- EngineOfBoth
    TopicKey <- KeyOne
    MaxChunkRows = 2
    MinTime = 0
    MaxTime = 2
    Batches <- BatchesUp
    Windows = {0, 1}
    MaxRows = 3
INVARIANTS
    TypeOK
    TopicsInOrder
    ChunkIdsUnique
    RowsConserved
PROPERTIES
    RetentionKeepsWindow
    ImplementsTopicLog
