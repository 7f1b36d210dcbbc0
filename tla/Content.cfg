CONSTANTS
    AtomLists <- Transcripts  TimedPolicies <- TranscriptPolicies  Counted <- CountedTokens
    Writers = {1, 2}  FilePaths = {1, 2}  TableSources <- ChunkedFiles  Profiles <- ModelProfiles
    NoProfile <- Offline  Dimensions <- VectorSizes  MaxPrepared = 2
    Callers = {1, 2}  Resources = {1}  Graphs <- PublishedGraphs  Options <- ExportFlags  Payloads <- Pays
    MaxManifest = 20  MaxText = 6  MaxMetadata = 4  MaxItems = 3  MaxDepth = 5
    MaxFloat = 8  MaxCommits = 2  MaxExchangeFaults = 1  HeldGraphs <- StoredGraphs
    Hosts = {1, 2}  Artifacts = {"x", "y"}  MaxMishaps = 1
SPECIFICATION Spec
INVARIANTS
    DocumentsFaithful
    PassagesPartition
    IndexFaithful
    TablesLinked
    MetadataExact
    FilesWhole
    ManifestsFaithful
    SearchesTrue
CHECK_DEADLOCK FALSE
