SPECIFICATION Spec
CONSTANTS
    Times = {0, 1, 2}
    Values = {v}
    Null = Null
    ChunkRows = 2
    MaxChunks = 3
    MaxRows = 4
INVARIANTS
    CursorYieldsRange
    LookupsExact
