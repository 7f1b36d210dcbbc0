CONSTANTS
    None = None  Foreign = Foreign  Resources <- FolderResources  Sources <- FolderSources
    Importers = {i1}  Namespaces = {n1}  Roots = {p1}  Refs = {f1, f2}  Contents = {x, y}
    Selections <- OneFolder  Scopes <- FileScopes  MaxTokens = 3  MaxEdits = 2  MaxStops = 1
SPECIFICATION Spec
INVARIANT FoldersReconciled
PROPERTY LifecyclesRespected
SYMMETRY Symmetry
CHECK_DEADLOCK FALSE
