CONSTANTS
    None = None  Foreign = Foreign  Resources <- FolderResources  Sources <- FolderSources
    Importers = {i1, i2}  Namespaces = {n1}  Roots = {p1}  Refs = {f1}  Contents = {x, y}
    Selections <- OneFolder  Scopes <- WholeScopes  MaxTokens = 2  MaxEdits = 1  MaxStops = 0
SPECIFICATION FairSpec
PROPERTIES NothingStalePublished ImportEnds
CHECK_DEADLOCK FALSE
