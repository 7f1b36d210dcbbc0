CONSTANTS
    Callers = {"c1", "c2"}  Extended = TRUE  OnWindows = TRUE
    Revisions <- RawRevisions  SignatureOf <- RawSignatureOf  HeaderMs <- RawHeaderMs
    RawOutputLimit = 1  MaxDuration = 1  MaxFrames = 2  PipeCapacity = 1
    Tasks = {"t1", "t2"}  MaxTexts = 3  BatchSize = 2  Dimensions = 2
    Requested = 2  Capability = "tested"  NativeDimensions = 3
    Keys <- SwitchKeys  Instances = {"i1", "i2"}  InstanceKey <- SwitchInstanceKey
    Names <- SwitchNames  ExactKey <- SwitchExactKey  SimilarKeys <- SwitchSimilarKeys
    DimensionOf <- SwitchDimensionOf  TextRecipe = FALSE  MaxPolls = 1
SPECIFICATION Spec
INVARIANT HelpersReaped
INVARIANT PublishedFromCapture
INVARIANT VectorsInOrder
PROPERTY SwitchInOrder
PROPERTY HostCallsEnd
CHECK_DEADLOCK FALSE
