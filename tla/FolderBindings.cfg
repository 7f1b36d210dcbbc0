CONSTANTS
    None = None  Foreign = Foreign  Resources <- FolderResources  Sources <- FolderSources
    Importers = {i1, i2}  Namespaces = {n1, n2}  Roots = {p1, p2}  Refs = {f1}  Contents = {x}
    Selections <- OneFolder  Scopes <- WholeScopes  MaxTokens = 1  MaxEdits = 0  MaxStops = 0
SPECIFICATION Spec
PROPERTY BindingsDurable
CHECK_DEADLOCK FALSE
