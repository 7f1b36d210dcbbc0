CONSTANTS
    Callers = {c1, c2}  Contents = {A, B}  Ref = "p"  Requests <- CallRequests  Nothing = Nothing
    MaxChanges = 2  MaxCalls = 2  MaxTokens = 3
    Threads = {c1, c2}  Keys <- PictureKeys  Size <- PictureSize  MaxEntries = 2  MaxBytes = 2  MaxPrepares = 4
    BatchRequests <- MediaRequests  Vectors <- UnitVectors  Limit = 3  MaxSources = 1
SPECIFICATION Spec
INVARIANTS
    SourcesTrue
    PreparationBounded
    PicturesRight
    UnitsRight
    TranscriptsRight
PROPERTY WritesComplete
SYMMETRY Symmetric
CHECK_DEADLOCK FALSE
