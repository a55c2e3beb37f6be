SPECIFICATION Spec
CONSTANTS
    Writers = {w1, w2}
    Fields = {"f"}
    Arrays = {"a"}
    Types = {"int", "str"}
    Lengths = {1, 2, 3}
    Limit = 2
    MaxChunkRows = 2
    MaxRows = 2
    MaxCalls = 3
    SharedRows = 1
    SharedTypes = {"int"}
    SharedLengths = {2}
SYMMETRY Symmetry
CONSTRAINT SharedBound
INVARIANTS
    ChunksMatchLayout
    ValuesUnderOwnField
    ArraysComplete
    HandlesStayGood
