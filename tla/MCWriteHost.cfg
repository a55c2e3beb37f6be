CONSTANTS
    Names <- MCNames
    Fields <- MCFields
    Types <- MCTypes
    Records <- MCRecords
    Streams <- MCStreams
    Schema <- MCSchema
    Time = {0}
    HandlesKept = FALSE
    MaxChunkRows = 2
    MaxRows = 3
    MaxCalls = 3
    MaxSources = 2
SPECIFICATION Spec
CHECK_DEADLOCK FALSE
INVARIANTS RowsConserved CacheCoherent CatalogSeriesExact
