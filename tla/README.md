# MDRack in TLA+

MDRack is a local retrieval rack: it reads notes, images and recordings, turns
them into searchable graphs, and keeps them in one SQLite catalog file that any
number of processes of one user may open at the same time. This directory holds
TLA+ models of it: of the parts where time matters, because several processes,
connections, threads or files are involved or because a process may die between
two steps; and of the algorithms in between, from a document to its graph and
from a query to its answer, each checked against a reference definition. TLC
checks the models on small instances; TLAPS proves for every size what the store,
the catalog file, the archive and exports, the enrichment services, the folder
import, the artifact cache, the ingestion of media, the tables of the first schema,
the grouping of transcripts and the hosts promise.

Paths in this document are relative to the repository (`packages/...`,
`src/mdrack/...`). `app/` abbreviates `src/mdrack/application/`.

## 1. The system

### Parts, their state and how they interact

| Part | State | Operations | Talks to |
|---|---|---|---|
| **Catalog file** (`mdrack_sqlite/catalog.py`, `adapters/sqlite/canonical_catalog.py`, `upgrade.py`, `migrations_v2.py`) | a database file at its path, migration ledger, identity row, backups | open (with a deadline), create, verify, close, upgrade | every process of the user |
| **Resource store** (`mdrack_sqlite/resource_store.py`, `graph_reader.py`) | tables of resources, representations, units, vectors, spaces, facets, full-text rows, publication states | `replace_resource`, `compare_and_publish`, `withdraw_if_current`, `delete_if_current`, `delete_resource`, `read_snapshot`, `rebuild_fts_index` | SQLite; implements the core's `PublicationPort` |
| **Core** (`mdrack_core`) | none of its own: immutable batches, states, snapshots | validation, indexing, retrieval, fusion | the ports |
| **Prepared enrichment and reindexing** (`app/enrichment.py`, `app/prepared_enrichment.py`, `app/ready_ocr.py`, `app/reindexing.py`) | captured snapshots and prepared outputs of jobs in progress | capture, prepare, merge or reconcile, publish with retries | the publication port, optimistically |
| **Folder import** (`app/folder_import.py`, `app/folder_lifecycle.py`, `app/native_text.py`) | `folders.json`, `lifecycle.json`, the user's files | bind a namespace, scan, reconcile missing files, ingest each file | the publication port, the file system |
| **Artifact cache and text provider** (`app/artifact_cache.py`, `app/_artifact_cache_fs.py`, `integrations/providers/contracts.py`) | a directory tree of immutable entries; a process-local cache per provider | lookup, store, discard, purge; generate | the file system, a model service |
| **Durable archive** (`app/durable_artifacts.py`) | a content-addressed directory tree with a marker file | provision, retain, read | the file system |
| **Manifests** (`app/manifest.py`, `app/resource_catalog.py`) | the destination file of an export | export, import, inspect, delete | the publication port, the file system |
| **Documents** (`app/chunking.py`, `markdown/`, `app/compatibility.py`, `app/metadata_*.py`) | none | chunk, build sections and graphs, project metadata, filter | the indexing services |
| **Retrieval** (`mdrack_core/application/retrieval.py`, `fusion.py`, `app/retrieval.py`, `app/media_search.py`, `search/`) | none | rank, fuse, group, filter | the store's search statements |
| **Ingestion** (`ingestion/`, `app/native_media.py`, `app/transcript_ingestion.py`, `app/video_composition.py`, `mdrack_media`) | child processes while decoding | decode, group, build batches | the publication port |
| **First-generation index** (`app/indexing.py`, `indexing/`, `storage/sqlite/`, `search/`) | an older schema | scan, detect changes, index per file | its own tables |
| **Model services** (`integrations/lmstudio/`, `embeddings/`, `hosts/cuda_encoder.py`) | a helper process, loaded models | load, encode, retry | HTTP, pipes |
| **Facades, CLI, configuration, evaluation, diagnostics** | none | dispatch and reporting | everything above |

There is no server and no lock of MDRack's own. What protects the data is
SQLite's writer lock, a compare-and-swap on publication states, `O_EXCL`,
`rename` and `rmdir`, and nothing else. All the hard behaviour follows from that:

- a **publication state** (`never_created`, `published`,
  `live_without_projections` after a withdrawal, `deleted`, with a lifecycle id, a fresh token and the source binding) is the authority for
  a graph. A caller reads a snapshot, works for a long time, and publishes
  against the state it has read;
- a write that **loses** reports a conflict; the services above the port decide
  whether their prepared work may still be applied to the newer graph;
- the two JSON files of the folder import and the cache directory have **no
  compare-and-swap**: they are replaced as wholes, or raced name by name;
- the catalog file is **created at its final path** and becomes usable step by
  step.

### What makes each part correct, and what is hard about it

- *Store.* After every commit, by whoever, the tables pass the catalog's own
  `verify`; tokens identify graphs; conditional writes lose no update; an ended
  lifecycle never returns. Hard: two readers and writers interleaved with
  multi-statement transactions that fail half-way, shared facets, a partial unique
  index, cascades that remove the rows by which other rows are found.
- *Catalog file.* Nobody opens a partial catalog; nobody loses one that is in
  use; an upgrade has a backup of exactly what it replaced; every open ends. Hard:
  several creators, a creator's clean-up, two maintenance calls.
- *Enrichment and reindexing.* Work prepared on an old snapshot is applied only
  where it still means the same; stale outputs never stay published; others'
  outputs and metadata survive; manual results win; the loops end. Hard: every
  check is made on a snapshot that is stale by the time of the write, and
  dependencies are transitive.
- *Folder import.* After a successful run every file that is there is published as
  it is, and nothing is published of a recorded file that is gone; nothing
  is withdrawn because it was merely not seen. Hard: files, scope, registry,
  lifecycle file and catalog change independently, and a run may be cut short
  anywhere.
- *Artifact cache.* A reader gets bytes that were produced for its key or a miss;
  entries are immutable; the first producer wins; nothing is left behind. Hard:
  every operation is a sequence of file-system calls that interleave with any
  other operation's.

- *Archive and manifests.* A reference that was returned can be read until its entry
  is damaged; a manifest stands for the graph it was made from, and an existing file is never
  overwritten. Hard: stages, renames, links and short writes of several processes,
  each of which may die, over a directory that others damage.
- *Documents.* Nothing of a document is lost, doubled or out of order, limits hold,
  identities are unique. Hard: splitting, merging and overlapping interact at
  boundaries of one character or one token.
- *Retrieval.* An answer is the fusion of its branches over one state of the
  catalog; a failing branch costs its own results only. Hard: a query is embedded
  before the snapshot is pinned, and each service treats failures differently.
- *First-generation index.* After a successful scan the index equals the files, and
  the tables hold files as a whole. Hard: renames, edits during the scan, lookups
  made before the transaction that uses them.
- *Ingestion.* What the catalog holds was made from the bytes it names; decoders,
  copies and interfaces are released on every way out; writes keep what others
  added. Hard: the file changes between capture, preparation, check and write.
- *Model services.* A helper never outlives its call; vectors belong to their texts;
  switching a model never leaves the configured model unloaded, nor the index it found
  bound to another one. Hard: timeouts, cancellation, output limits, processes that inherit
  pipes, other clients of the model server.

The hazards, each at its line and with the property that would notice it, are
listed in `PROJECT.json`.

## 2. Modules

| Module | Models | Composition |
|---|---|---|
| `PublicationState` | the publication state record, its transitions and the live-source index | |
| `Publication` | **abstract specification** of the publication port: states and graphs change by whole `Publish`, `Withdraw`, `Delete` steps | uses `PublicationState` |
| `CatalogTables` | the tables as one record, and every statement group of the store as an operator on it | uses `PublicationState` |
| `ResourceStore` | clients with their transactions over the tables | extends `CatalogTables`; refines `Publication` |
| `CatalogLifecycle` | creating, opening, using and upgrading the catalog file | |
| `EnrichmentGraph`, `Enrichment` | graphs of outputs (pruning, merge, reconcile); workers that capture, prepare and publish with retries | over `Publication` |
| `FolderImport` | importers, files, registry, lifecycle file | over `Publication` |
| `ArtifactCache` | cache operations as sequences of POSIX calls, and the provider above them | |
| `DurableArchive` | the archive of artifacts: marker, stages, renames, reading | |
| `Manifests` | export and import of a prepared resource, inspection and deletion | |
| `Chunking` | the structural and the first chunker | |
| `DocumentBatch` | from blocks to the resource graph of a document | |
| `SourceMetadata` | normalization, projection and filters of front matter | |
| `MarkdownIndex`, `IndexStorage` | the scan of the first-generation index; its tables | |
| `CoreSearch` | ports, scopes, grouping and fusion as functions of a snapshot | |
| `Retrieval`, `MediaRetrieval` | the search services over a changing catalog; search in prepared media | extend `CoreSearch` |
| `TimedGrouping`, `MediaBatches`, `NativeUnits` | passages of a transcript; graphs of timed media and the services that publish them; frame grids and windows | |
| `TranscriptReaders` | the readers of transcripts and captions | |
| `MediaIngestion` | calls that take an image or a recording into the catalog while it changes | merges as `EnrichmentGraph` does |
| `ImagePreparation`, `PictureGeometry` | threads over the preparation cache and the codec; turning, compositing, resizing, container checks and EXIF | |
| `RawMedia`, `CudaHost` | helper processes with threads, limits, timeouts and cancellation | |
| `LMStudio`, `ModelSwitch` | embedding requests of callers that share a client; the switch of a model | |
| `Hosts` | the four modules above side by side, with what each of them promises | instantiates them |
| `Ingestion` | calls that ingest a file, threads that prepare images and the graphs of timed media, with what each of them promises | instantiates `MediaIngestion`, `ImagePreparation`, `MediaBatches` |
| `Content` | passages, the tables of the first schema, exports and the archive, with what each of them promises | instantiates `TimedGrouping`, `IndexStorage`, `Manifests`, `DurableArchive` |
| `*Proofs` | the theorems of section 6 | extend the module they name |
| `MC*` | the instances TLC checks; those of `FolderImport`, `ArtifactCache` and `CatalogLifecycle` are in the modules themselves | extend what they check |

The application services never see tables, only the port. So the store is shown
to implement `Publication`, and enrichment and folder import are checked over
`Publication` itself: what is checked of them holds over the tables. `MCContent`,
`MCIngestion` and `MCHosts` put components that share no state side by side; a
behaviour of theirs exercises one, named by `area` or `host`. `Content`, `Ingestion`
and `Hosts` hold those of these components that theorems are about, with the
assumptions on their constants, so that runs and proofs speak of the same instances
and TLC evaluates the assumptions.

### PublicationState, CatalogTables, ResourceStore

`DatabaseType` has one field per table: which representation, unit, vector, facet
tag and source belong to which resource, the full-text rows and the states. Text
is a model value, a vector is its `<<unit, space>>` key. `RemoveGraph`,
`InsertGraph`, `PruneFacets`, `RebuildFts` and `PutState` are the statements of
`_write_graph`, `_delete_fts`, `_prune_facets` and `_put_state` in the code's
order; `ReadGraph` is `read_graph`; `CatalogVerify` is `SQLiteCatalog.verify`.

A client is idle, in a read transaction (`reading`, pinned to the commit it
started from), waiting for the writer lock (`queued`), in a write transaction
before its check (`begun`), half-way (`wrote`) or about to commit (`ready`). At
every point the call may fail, and the process die: the transaction's private
tables `wdb` are discarded. Lifecycle ids and tokens are `uuid4` values in the
code; the model numbers them in commit order, which assumes only that they never
repeat.

Abstracted: catalogs of the first clean schema, which have no publication states;
vector backends; titles, locators and all other columns that no check reads. The
search statements are operators of `CoreSearch`.

### EnrichmentGraph, Enrichment

A graph has a source generation, raw bytes, metadata, legacy representations
without an owner, and per *slot* (the owner-and-kind under which an output is
active) a revision, material, form, dependencies, independence and the manual
flag. `InvalidDependencies` is a least fixed point stated as such, where the code
loops. A worker captures a snapshot, prepares from a template (the call's
arguments), and then goes through the publication loop of `enrichment.publish` or
of `publish_reindex`: reread, verdict, compare-and-publish, conflict, retry. Other
users import, withdraw and delete at any time.

Abstracted: texts, units and vectors are one *material*; the order of units,
facets and titles; the replay of identical image bytes. `reindex_file` may bring
outputs that are already annotated, which bypass the manual check in the code;
`ManualAuthoritative` excepts it for that reason, and says so.

### FolderImport

`Start`, `ReadRegistry`, `WriteRegistry`, `Scan`, then for each file either
`ReconcileMissing`/`WithdrawMissing` or `ProcessCandidate`, `CaptureSource`,
`GuardSource`, `Confirm`, `PublishFile` (with `Rebase` on a conflict), each
followed by `Save` when the record changed, then `Finish`. Between any two steps
files are edited or removed, other importers run, other users touch, withdraw,
delete or take over resources, and a run may stop for good (`Stop`). The scan of
one root is atomic; a graph is the content it was made from; documents stand for
images, which go through the same steps. The variable `watch` is history: which
files were absent, which were recorded as available when the run began, and
whether anything disturbed the run.

`MissingFilesWithdrawn` has a premise that is easily overlooked. An importer knows
earlier runs only from `lifecycle.json`, and `_reconcile_missing` does not ask the
catalog about an entry that is recorded as unavailable (`app/folder_import.py:801`).
Where a run may be cut short between a publication and the save of its record, or
other importers may save records they loaded earlier, the promise therefore holds of
the files that were recorded as available when the run began, and of no others; with
one importer and no interruption (`RecordsComplete`) it holds of every file.

### ArtifactCache

A client's step is one file-system call. Directories have identities, so that a
handle keeps naming the directory it was opened on after the name has gone to
another one. `metadata.json` is represented by the payload it describes, damaged
files by `Torn` (does not parse) and `Flipped` (different bytes, still a text).
One shard is modelled, because operations on different shards share only the root
marker. Clients are text providers (`generate`), other producers (`put`) and the
command line (`purge`). Not modelled: the Windows adapter, entries that are
symbolic links or files, `status` and `verify` (they only read), a failing flush
after publication, `recover_corrupt=False`, and coroutines of one process sharing
one provider.

That providers agree on one text (`OneAnswer`) presumes that only providers fill the
cache. Another producer may store bytes that a provider cannot decode; of two
providers that meet such an entry both discard it, and the slower one may discard
what the faster one has put in its place.

### CatalogLifecycle

A database is its ledger, its identity row, the resources with a graph, those
with a state, and whether its checks succeed. Files have identities. Users of the
old software are absent during maintenance, as decision 0014 demands of the
operator; path-topology refusals, WAL side files and migration checksums are
abstracted. Writes are whole transactions here, since their inside is
`ResourceStore`'s subject.

### DurableArchive, Manifests

`DurableArchive` takes `retain` apart into its file-system calls: the marker is
opened exclusively and then written, the archive recognised, the entry looked up,
the artifact staged, written and renamed, and read back. Every call may fail and
its process die at each, and the clean-up of a failed call may fail too, so that its
stage stays; entries may be damaged by others. `Manifests` keeps a
graph as records with numbers for texts (their length) so that every limit of the
decoder has values on both sides; an export writes in pieces that may be short,
links the file to its destination and removes the temporary one; an import decodes,
canonicalizes vectors, validates and publishes. Other callers write, delete and
create the destination meanwhile. `HeldIn` names the graphs a catalog comes to hold,
those others publish and those imported, also from an export; the proofs assume that
each of them can be measured.

### Chunking, DocumentBatch, SourceMetadata

Each is one call as a machine with one step per block, so that intermediate states
are checked too. Texts are sequences of characters with a width, whiteness and the
strongest boundary after them, which is all the splitters look at; lines have
lengths. The properties compare the result with what the document holds: which
positions are shown, in which order, and whether a cut could have been made at a
stronger boundary. A logical id is the tuple of what it is a hash of, so equal ids
are equal inputs. The first chunker opens sections at H2 to H4, and one for what stands
above them; `DocumentBatch` takes these sections from `Chunking`, so that both speak of
the same ones. A metadata value is a tree of typed leaves.

### MarkdownIndex, IndexStorage

`MarkdownIndex` is the scan: list, compare, recognise renames, replace file by file,
delete what is gone; files change between the steps, and each step may fail or the
process die. `IndexStorage` has the tables and the storage class: a writer looks up,
prepares, and replaces a file in a savepoint; `delete_file` reads an id and the ids
of chunks before its transaction starts, since Python's driver opens one at the
first change; profiles, vectors, neighbours and paged search are operators on the
tables.

### CoreSearch, Retrieval, MediaRetrieval

A snapshot is a set of units with a resource, kind, text score, vectors and facets.
The ports, scope filters, grouping by resource, reciprocal-rank fusion (in exact
multiples of a unit) and the loop of `similar` that doubles its candidates are
functions of it. `Retrieval` runs a call step by step: the query is embedded, a
snapshot pinned if the service opens a read session, the space resolved, branches
run in order, each of which may fail, while others publish. The answer is compared
with the fusion over one snapshot; the score a result shows outside hybrid mode, that of
its first evidence, is abstracted.

### Media: MediaIngestion, MediaBatches, TimedGrouping, NativeUnits, TranscriptReaders

`MediaIngestion` has one file and one resource: callers capture the bytes, make a
private copy, run decoders, check the file again and publish, with identical bytes
replayed and others' outputs reconciled. The other four are about data: an atom has
times and tokens, a cue readable or unreadable fields, a vector two integers, and a
centroid its weighted sum.

### Images: ImagePreparation, PictureGeometry

Pixels are one channel and an opacity on pictures of up to a few pixels, fractions
are kept over a common denominator where the code uses floats, and containers are
sequences of blocks. An image handed in as already prepared is what its header says, what
the decoder finds, and whether the decoder, which has budgets of its own, accepts it.
`ImagePreparation` has the lock of the cache, the interfaces of
the codec and the temporary file.

### Hosts: RawMedia, CudaHost, LMStudio, ModelSwitch

Helpers, the threads that feed and drain them, descendants that inherited their
pipes, the event loop and whoever edits files interleave. An asyncio task is atomic
between two awaits, threads are not. Output is counted in chunks. Removing a temporary
file or directory may fail: raw ingestion ignores that, the encoder fails the call. The model server
answers in any order, wrongly or not at all; other clients load and unload models.
What the proofs assume of the constants of a host is a named definition of its module
(`CallersAssumption`, `LimitAssumption`, `SizesAssumption`, `KeysAssumption`), and
`Hosts` assumes all four, so that TLC evaluates them.

## 3. Runs

| Run | Instance | Distinct states, time (2 workers) | What it shows |
|---|---|---|---|
| `store` | one client on two resources, sources, representations, units and facets with seven shapes of batch and five tokens; two clients on one resource with three tokens | 190,378, 102 s | tables verify after every commit, a token is authoritative for its graph, no update is lost, the writer lock is always given back, each commit is one step of `Publication` |
| `enrich` | two workers, ten templates, three slots in a dependency chain, manual, independent and legacy outputs, three tokens, one retry | 253,716, 79 s | published graphs are consistent, old work is refused, a write spares what it does not declare, answers are true, each step of a publication loop uses up its budget |
| `folder_reconcile` | one importer, two files, every kind of scope, three tokens, two edits, one run cut short | 2,377,566, 152 s | success means that present files are published as they are and recorded missing ones withdrawn; only missing files are withdrawn; deleted resources stay deleted |
| `folder_races` | two importers, one file, one edit, two tokens, fair | 225,070, 66 s | nothing stale is published; every run ends |
| `cache_races` | two processes, one key, four directories, a new root, one crash, write error, damage or purge | 865,950, 61 s | nobody is answered bytes that were not produced for the key; valid entries are immutable; no temporary directory is left |
| `cache_answers` | two providers, one key, two texts, a process cache of one entry, damage or a purge, fair | 278,212, 72 s | without disturbance all answers for the key agree; every call ends |
| `catalog_shared` | two processes, two maintenance calls, three files, no catalog or an old one, two faults of any kind, fair | 127,824, 33 s | no partial catalog is opened, nothing is lost unless a creator fails late, the backup is what was replaced, states are never reset, every open ends |
| `content` | every document of up to two to four blocks, every transcript of up to four atoms, three files with three edits, two writers of the tables, nested metadata, manifests on both sides of every limit, two processes over the archive, every search of each service | 1,218,442, 99 s | documents, indexes, metadata, manifests, the archive and answers are faithful |
| `hosts` | two callers of the encoder, one raw ingestion with its threads, one switch, two embedding calls, fair | 593,701, 106 s | helpers are gone when calls end (unless a job refuses to become quiescent), evidence comes from the captured bytes, vectors are in order, a switch is safe at every point, every call ends |
| `ingestion` | two callers, two contents with two changes of the file, two threads and four pictures in a cache of two bytes, every small picture, container, frame grid, transcript file and video | 1,719,793, 60 s | what is held was made from the bytes it names, caches and decoders are bounded and released, pictures, units and transcripts are right, writes are complete |

Two further runs end in a violation and belong to the findings of section 4:
`folder_bindings` and `video_refused`.

Properties with several parts are conjunctions of named ones: `StoreSound`,
`CallsSerial` and `StepsLawful` of `ResourceStore` collect the invariants and action
properties of the store; `CommitsKept` is `NothingLost` and `BackupHolds`;
`FoldersReconciled`, `CacheSound` and those of `MCContent`, `Content`, `MCIngestion`,
`Ingestion` and `Hosts` are defined by their parts in the module.

**Why the bounds are enough.** Two clients are needed for a race, and the states
they race on (one resource's state, one key's entry, one file) are symmetric; for
the catalog file and the archive the proofs cover any number. Tokens bound the
length of a history: with five, a resource can be created, deleted, recreated and
written again while a snapshot from the first lifecycle is still held. Three slots
make dependencies transitive. One retry separates "retried" from "budget spent". One
fault at a time in the cache keeps the instances small; every operation after it
still interleaves with the other process's, so a fault meets every point of every
other call. Four directories let a process hold a removed directory and both still
publish; if there were too few, `MakeTemp` would block and `CallsEnd` would fail. Two
or three blocks give every pair of neighbours and, where merging looks back, every
triple; four atoms allow two overlapping ones with a boundary on each side; limits
are chosen so that texts fall below, on and above each. Two
changes of a file allow an edit and its undoing. Runs under fairness use no
symmetry.

**Deadlock.** The store, the cache and the catalog are checked for deadlock. The
others switch the check off: their workers stop at the token bound, or a call that
has ended is the end of the behaviour.

**Fairness.** Every fair specification assumes weak fairness of a client's own
steps, never of a particular outcome. A call runs to its end in its own thread or
process; every wait in it has a limit (SQLite's busy timeout, the transport's
timeout, the open deadline, a helper's timeout), and in the models a step is enabled
at each such wait. Nothing is assumed of other users, of faults, of the helper, or of
which of success and failure happens. For enrichment no fairness is needed:
`JobsAdvance` says that each step of a job, whatever others do, lowers what is left
of its budget, so that it cannot run for ever.

## 4. Findings

1. **`folder_bindings`**: `folders.json` is read, extended and replaced without a
   lock (`app/folder_import.py:661`). Two runs that bind different namespaces at
   the same time lose one binding, and the lost namespace can then be bound to
   another root. `docs/current-architecture/limitations.md:168` calls bindings
   durable.
2. **`video_refused`**: a video is embedded according to the tokens of transcript and
   captions together (`app/video_composition.py:149`) and built according to those of
   the transcript alone (`mdrack_media/audio.py:135`). A transcript just below the
   whole-text limit whose captions take the video above it is refused although the
   caller gave every vector it was asked for.

A document is behind the code: `limitations.md:180` says that folder import does
not withdraw a disappeared source; `app/folder_import.py:725` does, and
`MissingFilesWithdrawn` shows it.

## 5. Observations

Behaviours met while modelling that the models contain. Those with a name are
refuted statements kept as definitions: adding the name to the configuration of the
run gives the counterexample.

*Catalog, cache, archive.*
- `InUseKept` (catalog_shared): a creator that fails after its identity row is
  committed removes the file (`mdrack_sqlite/catalog.py:256`) although others may
  have opened it and written to it; decision 0014, line 66, says otherwise.
  `NothingLost`, checked and proved, says that this is the only way to lose one.
- `DiscardsOnlyCorrupt` (cache_races): a lookup that read a corrupt entry removes
  whatever now carries its name (`app/artifact_cache.py:142`), which may be a valid
  entry just published. The consequence is a needless regeneration, never a wrong
  answer.
- A creator that dies leaves a partial catalog that nobody can open until it is
  removed. Of two first stores into a new cache root the slower one raises.
- The archive's marker is created in place: a second opener may see it partial and
  be refused, and a crash while writing it leaves the archive unrecognised for ever.
- A stage of the archive stays for good where the clean-up of a failed `retain` cannot
  remove it (`app/durable_artifacts.py:110-115`); nothing collects it.
- A failing unlink after the link of an export reports
  `manifest_output_unavailable` although the destination exists. An export does not
  check the text and metadata limits that decoding enforces.
- `PreparedResourceCatalog.delete` reads and then deletes: two concurrent deletes both
  report the deletion, and a resource withdrawn in between is reported absent and
  stays.

*Folder import and indexes.*
- A run that dies between publishing a file and saving `lifecycle.json` leaves a
  resource that no later run withdraws once the file is gone. That includes a file
  that had come back: its record still says unavailable, so that its resource is not
  looked at again. Of two runs the later save drops what the earlier one recorded.
- `ScanComplete` (content): a file that is renamed and whose new content fails keeps
  its old path until the next scan; a file without retrievable text fails every scan;
  duplicate ids in the legacy chunks of a file fail it.
- `TextExact` with two writers (content, area `tables`): `delete_file` uses an id and
  chunk ids read before its transaction. A rename in between makes it delete the
  renamed document, which the next scan restores; a replacement in between leaves
  text rows that a search shows with an empty path until the text index is rebuilt.
- `BuildSucceeds` (content): one block whose pieces exceed a limit of the chunker
  keeps the whole file out of the index.
- The first chunker numbers equal texts in their section but names them by the path of
  the section: a text repeated under two headings of one path gets one id twice, and the
  document is refused (`app/indexing.py:343-368`).
- A date is rendered without the check of string lengths
  (`app/metadata_normalization.py:194-197`): with a `max_string_bytes` below that of a
  date, normalization keeps a string beyond its own limit and would reject it if given
  its result again. `MetadataExact` says so.
- In the first chunker, content before an H1 is lost when a file has only H1
  headings, and sentences and words longer than the target are not split.

*Search.*
- A hybrid search with `text_weight=0` and no usable vector raises `ValueError`
  outside the `try` of `app/retrieval.py` (near line 733), though
  `docs/retrieval-design.md:273` says failures degrade; an image hybrid search raises
  when its vector branch fails; a unified semantic search answers lexically while its
  mode stays "semantic".
- In mode "transcript" nearby frames are always empty (`mdrack-media/API.md:90`).

*Media.*
- `UnsplittableIsConnected` (content): a boundary below the soft minima is no
  candidate, so that an overlapping pair after it that reaches the hard limit has
  nowhere to be split from, and the transcript is refused (or flagged) although each
  piece is within the limit (`mdrack_media/grouper.py:386-410`). Rule 7 of
  `mdrack-media/API.md` names only single atoms and overlap-connected components.
- `ChangedLeavesGraph` (ingestion): `source_resolution.py:63` checks the file again
  after the caller's block, so that `ingest_native_image` answers `source_changed`
  though the graph was replaced (decision 0012, lines 29 and 60).
- A recipe may ask for a size beyond the budgets of the decoder: `prepare` makes it and
  `validate_prepared`, which decodes under the same budgets
  (`image_preprocessing.py:425-431`, `1108-1117`), refuses it as
  `image_prepared_invalid`. `PicturesRight` says when.
- The same bytes of native media under another `source_ref` raise
  `source_changed_without_new_generation`. Two clipped video windows on the same
  frame are refused.
- A WebVTT timing line with an empty end raises `IndexError` even outside strict
  mode; an SRT block after two blank lines is refused; lenient mode drops an
  unreadable duration without a diagnostic.
- A failed write or unlink of the codec's temporary file leaves it behind
  (`image_preprocessing.py:1070-1072`, `1144-1148`), and so does a failed unlink of the
  copy or the output of a raw ingestion (`raw_source_provenance.py:279-283`). Blocks of a WebP file beyond the length it declares
  can still set the orientation.

*Model services.*
- `mdrack model switch` looks at the bound vectors before its rebuild and not again
  before it writes the configuration (`cli/commands/model.py:785-798`): what another
  process binds in between is bound to the old model. `SwitchInOrder` says nothing of it.
- A private directory of the encoder that cannot be removed turns a successful call into
  `external_host_failed`.

## 6. Proofs

`ResourceStoreProofs` proves the following about
`ResourceStore` for any sets of clients, resources, sources, representations,
units, texts, spaces, facets and batches and any number of tokens:

| Theorem | States |
|---|---|
| `TypeCorrect` | `TypeOK` always holds |
| `StoreVerifies` | every commit leaves tables that `CatalogVerify` accepts |
| `StoreLiveSourceUnique` | no source is bound to two live resources |
| `StoreSpaceIdentityFixed` | a space keeps its meaning |
| `StoreLifecycleDiscipline` | graphs change only with tokens, bindings stay while live, ended lifecycles never return |
| `StoreSnapshotAuthority` | a state that is still current still has the graph that was read with it |
| `StoreSnapshotsAgree` | two snapshots of one state carry one graph |
| `StoreNoLostUpdate` | a conditional write replaces the very graph its caller read |
| `StoreNoTransactionLeft` | the writer lock is held by a client in a transaction or by nobody, and nothing uncommitted stays behind |
| `StoreFacetsShared` | a facet is kept exactly as long as something is tagged with it |
| `StoreAlwaysSound`, `StoreCallsSerial`, `StoreStepsLawful` | the conjunctions the run `store` checks, from the theorems above |
| `StoreImplementsPublication` | the store implements the publication port (`Publication`) under the mapping of states and graphs |

**Assumptions.** `None` is in none of the sets, the batches are batches
(`BatchAssumption`), the token bound is a natural number; no finiteness is used.

**Argument.** The first part is about the operators of `CatalogTables` alone. It shows which
rows each statement group changes (`RemoveGraphTables`, `WriteGraphTables`, ...),
that rows of other resources and hence their graphs are untouched (`RemoveFrame`,
`WriteFrame`, `SameGraph`), that the written graph is the batch in stored form
(`WriteOwn`), and from these that foreign keys, the text index and the
graph-iff-published rule are preserved: `PublishVerifies`, `RemoveVerifies`,
`RebuildVerifies`.

No property of interest is inductive by itself, because what a commit publishes
was computed steps earlier in a private copy. `ControlInv` therefore describes,
for each stage of a client's call, what its private tables are in terms of the
committed ones (`Stage`, `ClientInv`): the holder of the lock is the only one with
tables of its own, and they are the outcome of its request on the *current*
committed tables. From it `OnlyCommits` follows: the committed tables change only
by a commit, whose effect is that of the whole request. `TablesInv` adds that
tokens and lifecycles never exceed the number issued, without which a fresh token
could equal an old one and `LiveSourceUnique` would not be preserved when a
withdrawn resource returns. `AuthorityInv` says of every snapshot held anywhere, in
a client's hand, in a running read transaction or in a pending request, that it is
authentic: if its state is current its graph is. `AgreeInv` says of all pairs of
them that equal states have equal graphs; it needs `AuthorityInv` because a new
reader reads the *current* graph while an old one holds a past one.

The refinement rests on `OnlyCommits`: the commit of a publication, a withdrawal or a
deletion is one step `Publish`, `Withdraw` or `Delete` of the port with the request as
its witness; a rebuild and every other step leave states and graphs as they are.

`CatalogLifecycleProofs` proves, for any number of processes, maintenance calls,
files, resources, migrations and faults of any kind:

| Theorem | States |
|---|---|
| `CatalogTypeCorrect` | `TypeOK` always holds |
| `OnlyCompleteOpened` | whoever has the catalog open has a complete current one |
| `WritesSurvive` | `NothingLost`: unless a creator fails late, nobody's catalog is removed and no acknowledged write is lost |
| `UpgradeBackedUp` | the backup of the call that upgraded is exactly the catalog it replaced |
| `CommitsKeptUnlessLate` | `CommitsKept`, the conjunction of the last two that the run checks; the late failure is excepted from the first, not from the second |
| `StatesNeverReset` | a publication state of a current catalog is never removed |

**Assumptions.** The plan has at least one migration; processes, maintenance calls
and `None` are distinct.

**Argument.** `LifeInv` is the inductive invariant. A creator's file is the one at
the path, holds no rows and no identity while it is migrated, and there is one
creator at a time, because `O_EXCL` succeeds only when the path is free; hence
nobody has opened a file that a failing creator removes, unless its identity row
was already committed. An older catalog has no publication states and is changed by
nothing but the commit of an upgrade, hence the copy a maintenance call made before
it took the lock still equals the catalog when the same verification succeeds under
the lock, and a second call finds no older catalog any more. `StatesKept` follows
step by step: the actions that write a file are four, and only `CommitWrite` writes
a current one.

`EnrichmentProofs` proves, for any workers, templates, imports and slots, and any
writes of others through the port:

| Theorem | States |
|---|---|
| `EnrichmentGraphsConsistent` | every published graph is consistent: each output has the inputs it was prepared from |
| `EnrichmentRejectsOldWork` | prepared work is written only onto the lifecycle, source and inputs it was captured from |
| `EnrichmentWritesSpare` | a write keeps others' outputs, manual outputs and metadata, unless an input is gone |
| `EnrichmentAnswersTrue` | an answer is true of the catalog at the step that gives it |
| `EnrichmentJobsAdvance` | each step of a publication loop lowers what is left of its budget |
| `EnrichmentUsesPort` | the services act on the catalog through steps of `Publication` only |

**Assumptions.** Imports are consistent graphs (`ImportsAssumption`); templates are
what a service can be called with: active outputs over existing slots
(`TemplatesAssumption`); `None` is no record.

**Argument.** Two halves. The pure one is about the operators of `EnrichmentGraph`:
the least set closed under staleness is closed, so that pruning it leaves a consistent
graph whatever was merged, and each of its members depends on something gone or
changed, so that pruning takes nothing else. The interleaved one is `EnrichInv`: a
snapshot in a worker's hand is `Authentic` (if its state is current, so is its
graph), and the verdict the worker acts on was computed from that snapshot. A
conditional write that succeeds therefore writes onto the very graph its verdict is
about; one that fails is a conflict and costs a retry.

`FolderImportProofs` proves, for any importers, namespaces, paths, contents, scopes,
edits, interruptions and outside users:

| Theorem | States |
|---|---|
| `FolderReconciles` | a successful undisturbed run leaves present files published as they are and recorded missing ones withdrawn |
| `FolderRespectsLifecycles` | a run withdraws only what was absent at some moment of it and in its scope, and revives no deleted resource |
| `FolderPublishesPresent` | what is published is what the file held at the last check |
| `FolderUsesPort` | importers and outsiders act on the catalog through steps of `Publication` only |

**Assumptions.** Identities of files and sources are distinct, selections bind
namespaces to roots, bounds are natural numbers, `None` is no record.

**Argument.** `FolderInv` says at each place of a run what its lists rest on
(`RunInv`: whatever is listed as missing was absent, in scope, since the run began)
and, while nothing disturbs it (`QuietInv`), how the snapshot, the captured bytes and
the record in its hands agree with the catalog, the disk and the lifecycle file. The
induction is over the two lists: files already processed are reconciled
(`PresentDone`, `VanishedDone`) and stay so, because a step on one resource leaves the
others alone. `RecordsInv` is what makes the stronger promise for a single importer
without interruptions true: then nothing is published that the record does not list as
available, except in the step before its save.

`ArtifactCacheProofs` proves, for any processes, keys, texts, directories, sizes of the
process-local cache and disturbances:

| Theorem | States |
|---|---|
| `CacheStaysSound` | nobody is given bytes that were not produced for the key; stores that end leave no temporary directory |
| `CacheEntriesImmutable` | a valid entry is never overwritten, it can only be removed or damaged |
| `CacheGivesOneAnswer` | while only providers use a root in use and nothing disturbs it, all of them answer a key with one text |

**Assumptions.** Bounds are natural numbers and the marks for missing, torn and
flipped files are no texts (`NamesAssumption`).

**Argument.** A step is one file-system call, so that everything a client knows may be
out of date. `SafeInv` therefore speaks of directories, which have identities, and not
of names: a temporary directory belongs to one client (`Separate`) until `rename` gives
it a name, a complete directory holds a text that was produced for its key
(`Sound`), and what a reader holds (`Linked`) is the checksum and the bytes of one
directory. Names enter only through `rename`, which fails onto an existing entry.
`CalmInv` adds, for an undisturbed root, that the entry under a key never changes and
that every text in a provider's hands or memory is that entry's (`Won`).

`HostProofs` proves, for any callers, tasks, limits, batch sizes, models and names:

| Theorem | States |
|---|---|
| `CudaHelpersReaped` | except in calls whose job refused to become quiescent: a helper lives only inside the call that holds the lock, none runs once `aclose` has returned, and a directory stays only where removing it failed, in a call that failed; a vector comes from a helper that exited with zero after one whole result, the own one under the extended protocol (the other protocol binds nothing, and nothing is said of the pinned files) |
| `RawPublishedFromCapture` | raw media is published from complete, accepted output for the captured bytes; a call that ends leaves no thread or helper, and of its files only one that could not be removed |
| `LmVectorsInOrder` | vectors return in the order of their texts, complete and of the right length; reports are true |
| `SwitchStaysInOrder` | the switch never unloads the configured model; the configuration moves only when no vectors were bound as the command began, and after a rebuild to the identity of the vectors; what others bind after the last check is outside the statement |

**Assumptions.** `HostsAssumption`: callers are told from the closer and from nobody,
the output limit, numbers of texts and dimensions are natural numbers and batches are not
empty, every model has a dimension other than zero, and a name equals a model or none.
Each theorem is about the specification of its own host, which `MCHosts` runs.

**Argument.** `CudaInv` is about the lock: a call that waits for it waits once and has
started nothing, so that the one that gets it finds no helper alive but those a job
refused to end, and after `aclose` has held the lock whoever still waits finds the
provider closed. `RawInv` says that the helper lives only while it is waited for, that
both threads have stopped before the output is judged, after which limit and failure
flags cannot change, and what evidence that passed the judgement rests on. `LmInv` says
that what a call has received is the beginning of what it must return; that arranging a
batch by the indexes in the answer puts every vector in its place
uses that a batch is accepted only when its indexes number its items without repetition.
`SwitchInv` carries from the first admission to the last request what the run relies
on: bound vectors have the configured identity and the run is about that identity, a
measured dimension is not zero, the instances to unload are of the previous model, and
what is written is what was rebuilt.

`IngestionProofs` proves, for any callers, contents, requests, threads, pictures and
limits:

| Theorem | States |
|---|---|
| `CallsKeepSourcesTrue` | what the catalog holds was made from the bytes its generation names; ended calls leave no copy or decoder behind |
| `PreparationStaysBounded` | the count of the cache is exact and within both limits, each key is held once; the interfaces of the codec are released on every way out, its temporary file unless writing or removing it failed |
| `WritesAreComplete` | a write replaces the graph its call worked from and keeps what others attached to it; a published transcript or video has exactly its units, a vector for each when it is embedded, and a whole unit that covers, counts and weighs all of them |

**Assumptions.** `IngestionAssumption`: what a request can ask, pictures have a size,
requests to the services of timed media are well formed, their limit is a natural
number.

**Argument.** `CallsInv` is about *claims*: a generation together with the bytes it
stands for, in the catalog, in its past or in the hands of a call that is about to
publish. No two claims give one generation to two contents, since a hashed generation
names its bytes and a drawn one is new; a call that reread the file, lost a race or
replays identical bytes only ever joins a claim. `PreparesInv` needs that the
sequence of cached pictures has no repetition: then evicting the oldest and replacing
one change the sum by exactly their sizes (`BytesOf`, by induction over prefixes).
`BatchesInv` says that the graph to be published is complete
(`Complete`); that it is, is shown of the pure part: every way of embedding and
aggregating a transcript or a video, long or short, titled or not, gives one vector per
unit and a whole over all parts (`TranscriptEmbedded`, `VideoEmbedded`).

`ContentProofs` proves, for any transcripts and policies, writers, files and models,
callers, graphs and flags, processes and artifacts:

| Theorem | States |
|---|---|
| `PassagesAlwaysPartition` | passages hold every atom once and in order, do not overlap in time, and are beyond a hard limit exactly when marked so |
| `TablesStayLinked` | each file has the rows of one preparation of its source, nothing is there without its file, a vector belongs to a chunk and to the model its profile is bound to |
| `ExportsAlwaysComplete` | a destination holds the whole encoding of one graph, linked by the caller that says so; temporary files stay only where removing them failed; an undisturbed inspection counts one graph |
| `ArchiveAlwaysSound` | an entry is the artifact it is named for unless it was damaged; a reference that was returned stays readable until its entry is damaged; calls without a mishap on a provisioned archive are answered; a call that died or failed leaves at most its own stage |
| `FilesStayWhole` | `FilesWhole`, the conjunction of the last two that the run checks |

**Assumptions.** `ContentAssumption`: transcripts have times and tokens as records
do, the graphs a catalog comes to hold (`HeldIn`) can be measured, no error of the
decoder has the name of a success, digests differ from the marks for missing, damaged
and partial files. `TablesStayLinked` needs none of them.

**Argument.** `GroupingInv` is about the open passage: every candidate lies inside it,
at a boundary where nothing overlaps and within the hard limits, so that whichever the
scoring prefers closes it well, and a passage without a candidate is the only one that
can be beyond a limit. That passages do not overlap in time follows from their
boundaries: after a safe boundary everything starts where the passage has ended.
`StorageInv` says that a savepoint about to be committed is linked as well as the
committed tables are (`Linked`), although it was opened from lookups made earlier: the
number of a preparation is in no row until it is written (`Fresh`), so that chunk ids
never meet, and what the lookups got wrong the constraints on path, document and profile
refuse.
`ExchangeInv` says at each place of an export what its temporary file holds (`written`:
all of the payload), and that the payload is the encoding of the graph that was read;
for an inspection, that while no commit came in between the counts so far are a prefix
of those of the graph. `ArchiveInv` adds to what the archive promises what each call
knows where it is (`CallInv`): from the recognition on the marker is whole and never
changes; a stage exists from writing to publication and holds the artifact before the
rename; the entry exists when it is read back. Mishaps are counted so that damage and
leftover stages can be traced to one.

Where such an argument is about every prefix of a sequence, the induction is over sets
of naturals: a set that has 0 and with each number the next one has them all
(`Induction`), because of the sets `0 .. n` outside it one would be least, and the
strict subsets of finite sets are well founded.

Every inductive invariant was checked by TLC on the instance of its run before it was
proved.

## 7. Only model-checked

- The liveness properties (`ImportEnds`, `CallsEnd`, `OpensEnd`, `HostCallsEnd`):
  fairness is outside the prover's reach.
- `MetadataExact`: metadata is nested to any depth, so that its normalization is a
  `RECURSIVE` operator, which the provers cannot look into.
- `PicturesRight`, `UnitsRight`, `TranscriptsRight`: what resampling, frame grids and
  readers compute from one input. These are statements about tables of numbers and
  sequences of tokens, checked against reference definitions over all bounded inputs.
- `DocumentsFaithful` and `SearchesTrue`: the results of the chunkers and of fusion
  rest on orders chosen by a comparison and on sums over sets, whose laws would have
  to be proved first. Their interleaved part, that a search answers from one snapshot
  while others publish, is small beside them.
- `ManifestsFaithful`: that decoding undoes encoding for every graph is a law of
  sorting and of canonical vectors. What happens to the file in between is
  `ExportsAlwaysComplete`.
- `IndexFaithful`: what a scan promises of several files at once, and what paged
  search and neighbours compute from the tables. That the tables they work on are
  linked is `TablesStayLinked`.

## 8. Not modelled

Each part left out is listed in `PROJECT.json` with the reason:

- the **Windows adapter of the artifact cache**, which would need a model of Windows
  sharing rules;
- **vector codecs and backends**: floating-point and byte formats, and the probing of
  an optional extension;
- **Markdown parsing**, which works on the tokens of a library: the chunkers are
  checked on any sequence of blocks instead;
- the **public engine, configuration, command line and output**: dispatch, defaults
  and formatting without state beyond a call;
- **evaluation, diagnostics and observability**: reports over the other parts.

Within modelled parts, wording, serialisation and the fields no property reads are
abstracted; the component notes in `PROJECT.json` name what is left out of each.

## 9. Order of work

The publication port, the store and the catalog file came first, because everything
else writes through them; then the optimistic callers of the port, the directories
shared by processes, and the algorithms between a source and an answer. Proofs followed
in the same order. What is worth adding next is the scan of `MarkdownIndex`, whose
invariant would relate the list of a scan to files that change under it, and the law of
`Manifests` that an import undoes an export.
