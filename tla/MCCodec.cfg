SPECIFICATION Spec
CONSTANTS
    W64 = 2
    W32 = 1
    NanosPerSecond = 100
    Samples <- TheSamples
    UnknownFields <- TheUnknownFields
    UnknownInTime <- NoVarints
    CutTypes = {"FrameTransforms", "ImageAnnotations", "SceneEntities"}
INVARIANTS
    RoundTrip
    UnknownFieldsSkipped
    ConcatenationMerges
    CutBatchRefused
