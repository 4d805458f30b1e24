# TLA+ models of the Meilisearch fragment in `src/`

This directory holds TLA+ models of the parts of `src/` that change state:
- the document routes that enqueue tasks;
- the extraction cache of the indexing pipeline;
- the JSON field walker and the tokenizer of the new indexer;
- the snapshot procedures;
- the task records of `tasks/task.rs`, with the scheduler of spec 4.F/4.G where the routes and the snapshot need it;
- the document store and its read routes, through the compressed obkv codec;

It also holds the TLC configurations that check the models. `PROJECT.json` records:
- which definition models which source lines (`map`);
- every run and what it should give;
- the mutants that show each property can fail;
- the findings and the hazards.

## The system and how its parts interact

A document addition (`routes/indexes/documents.rs`, `document_addition`) runs these steps:

1. It receives the body into a temp file.
2. In a blocking task, it parses the body into an update file and persists the file under a uuid.
3. In a second blocking task, it registers a task that refers to the file.

The deletion routes register a task with no payload.

The scheduler is not in `src/`; spec 4.F and 4.G describe it. It processes the task with the lowest id, commits, and then deletes the payload file of a finished task.

While the scheduler processes a batch, the indexer runs these steps:

1. It walks every document's fields (`extract/mod.rs`, `perm_json_p`).
2. It tokenizes the string leaves into word positions (`searchable/tokenize_document.rs`).
3. Extractors feed del/add docids per key into an LRU cache (`index_documents/cache.rs`). The cache spills to a sorter.
4. The sorted run is merged into the index.

The read routes (`get_document`, `get_documents`, `documents_by_query`) read documents back. They run beside the writer:
- `some_documents` reads the index's decompression dictionary, if any (line 606).
- It decodes every stored block with it (`decompress_with_optional_dictionary`, line 615).
- The codec (`heed_codec/compressed_obkv_codec.rs`) stores lz4 blocks compressed against that dictionary.

Snapshots run beside all of this (`index_controller/snapshot.rs`):
- They copy the task store, the payload files and the indexes.
- They archive the copies into `<db>.snapshot` by writing a temp file and renaming it.
- On boot, `load_snapshot` may restore the database from a snapshot.

## Modules

| Module | Models | State ↔ code |
|---|---|---|
| `DocumentIngest` | `document_addition` and the deletion routes (`documents.rs` 72-91, 312-327, 368-575), plus the scheduler from the spec, and crashes | `pc`, `result`: the handler's progress and its answer. `tmpFiles`: the reserved `NamedTempFile`s. `files`: `updates_files/<uuid>`. `tasks`: the task store, with the task's `Task`/`TaskEvent` status (`task.rs`). Actions: `StartAddition`, `StartDeletion`, `Receive`, `Parse` (parse + persist + the `documents_count` match, 446-480), `Register` (482-502), `StartProcessing`, `FinishProcessing`, `DeleteContent`, `Crash`, `Restart`. The constant `DeleteErrors` lets `delete_update_file` fail with an I/O error other than NotFound: after a parse panic that error is only logged (470-475) and the file stays; after a register error it is returned by `?` (497) and the file stays. |
| `ExtractionCache` | `SorterCacheDelAddCboRoaringBitmap` (`cache.rs`) | The LRU as a sequence of entries, the sorter as a bag of written entries, and the Redis counter. Actions: `InsertDel`, `InsertAdd`, `InsertDelAdd` (each may evict and write), `IntoSorter`. A write may fail (Redis `unwrap` panics, or the sorter errs). |
| `IndexingPipeline` | An extractor feeding the cache, then the del-before-add merge (spec 4.E) | Composes `ExtractionCache`. The extractor and the merge are not in `src/` and are modelled from the spec; they give the cache the insert sequences a batch of document changes produces. |
| `PermJsonPointer` | `contained_in`, `select_field`, `seek_leaf_values_in_object/array` and the top-level field loop of `extract_document_facets` | Keys are character sequences, so the dot rule of `contained_in` is modelled character by character. `emitted` is the set of seeker calls. |
| `DocumentTokenizer` | `tokenize_document` and `process_tokens` | The per-field counter (`fieldPosition`), the field-id limit, the early return at `max_positions_per_attributes`, and the u16 conversion. Tokens are abstracted to kinds: word, word dropped after taking a position, word with an empty lemma, hard separator, soft separator. |
| `Snapshot` | `SnapshotJob::run_sync`, `SnapshotService::perform_snapshot` and `load_snapshot` | `db`: exists, complete, content. `job`: the copy steps done. `tmp`/`tempFile`: the archive being written. `snapshot`: the persisted file. The other actors are additions (`PersistPayload`, `RegisterTask`), finishing tasks, index creation, crashes, and an operator deleting the db. |
| `DocumentStore` | The compressed obkv codec and the read routes `get_document`, `documents_by_query`, `retrieve_document`, `retrieve_documents` and `some_documents`. The writer and the dictionary training are modelled from spec 2 and 4.B | `dict`: the index's dictionary or none. `docs`: internal id to stored block; a block is raw, or lz4 with its dictionary, its raw length and its compressed length. `response`: the last answer, with what was stored under the ids it answers for (`expected`). Actions: `PutDocument` (compressed iff a dictionary exists), `DeleteDocument`, `TrainDictionary` (once; stored documents are not rewritten), `GetDocument`, `GetDocuments(offset, limit)` (`skip(offset).take(limit)` over `documents_ids`, where one failed document fails the page). |


The `MC*` modules give the constants their values.

## Runs

| Run | Checks | Shows |
|---|---|---|
| `pipeline` | `TypeOK`, `NoLostUpdate` | Setup: 3 keys, an LRU of 2 entries, 2 documents, and writes that fail (Redis or sorter). No docid given to an insert is lost across evictions and re-insertions, until a write fails. |
| `ingest` | `NoDanglingContent` | Setup: 3 concurrent requests, each an addition or a deletion, each dry-run or not; `register` may return an error or panic before or after its commit; `delete_update_file` may fail; one crash at any point. An enqueued or processing addition always finds its payload file. |
| `ingest_panic` | `NoOrphanPayload` (violation) | A panic in the register closure leaks the persisted file (line 493). Deletions do not fail in this run, so the trace is the panic path. |
| `ingest_cleanup` | `RegisterErrorAnswered` (violation) | A dry-run addition whose register fails is answered with the NotFound of the cleanup `delete_update_file(uuid)?` (line 497), not with the register error. |
| `tokenizer_leaves` | `LeavesKeptApart`, `WithinMaxPositions` | Setup: every document of up to 2 leaves of up to 3 tokens, over 2 fields with 1 free field id. The positions of a field increase. Leaves stay `MAX_DISTANCE` apart. No position reaches the bound. |
| `tokenizer_string` | `SeparatorProximity` | Setup: every string of up to 4 tokens. Hard and soft separators give the distances of spec section 8. |
| `tokenizer_first_word` | `FirstWordAtStart` (violation) | A string `e S w` (a word with an empty lemma, a soft separator, a word) puts its first word at offset + 1 (line 140). |
| `walker` | `WalkEmitsSelectedLeaves` | Setup: all documents of 2 top-level fields nested 2 deep, with 6 selector lists. The walk emits exactly the leaves whose dotted key is selected. |
| `walker_skip` | `WalkEmitsSelectedLeaves` (violation) | The skip selector `a.b` also skips the sibling `a.c`. |
| `snapshot` | `SnapshotFileComplete`, `TasksHavePayloads`, `StartsOnCompleteDb` | Both snapshot procedures race with additions, failures, 2 crashes and restores. The snapshot is never partial. A running db never has a task without its payload. A partial db is never served. Payloads are a symmetry set. |
| `store_read` | `ReadReturnsStored` (violation) | Setup: 2 documents of 8 or 40 bytes, compression ratios 1 or 4, one dictionary. A 40-byte document compressed to 10 bytes cannot be read back (compressed_obkv_codec.rs:33). |
| `snapshot_ignore_db` | `StartsOnCompleteDb` (violation) | With `ignore_snapshot_if_db_exists`, an interrupted restore is served. |

Every property of a passing run has a mutant in `PROJECT.json`: a plausible bug in a mapped definition, written as an operator just before the original (e.g. `HasRoomAtCap` before `HasRoom`), which TLC shows breaks the property. `TypeOK` is checked in `pipeline` (the LRU never exceeds its capacity) and `tokenizer_leaves` (no more field ids than the map can give), where a mutant can break it.

## Bounds

- **Document store:** 40 bytes at ratio 4 is the smallest pair in the model where the inflated block exceeds `20 + 1.1 × compressed length`; 8 bytes stays below it. Offsets and limits range over 0..2, so a page can skip, cut or miss the 2 documents. When run with only the 8-byte size, the same property is violated by the second defect instead: put raw, train, read.
- **Requests:** 3 requests allow one request in flight while another's task is processed or deleted, and a deletion registered between two additions. The ingest run reaches 474,629 distinct states in about 30 s.
- **Cache:** 3 keys over a capacity of 2 force evictions, and re-insertion of an evicted key.
- **Tokenizer:**
  - `MAX_DISTANCE` = 4 and a position bound of 8 make the early return and the `take_while` both reachable within 3 tokens.
  - A u16 limit of 9 keeps the u16 filter from hiding the bound.
  - The string run uses 4 tokens, the fewest that form "word hard soft word".
- **Walker:** nesting of 2 is the least depth at which a skip selector can prune a sibling.
- **Snapshot:** 2 payloads, 1 index and 2 crashes allow a crash during the restore that follows a crash.

## Fairness

No property of the project is a liveness property, so no specification states fairness. The scheduler, the only loop in these parts that must run, is not in `src/`: what it eventually does is the spec's claim, not the code's.

## Not modelled

| Part | Reason |
|---|---|
| lz4 itself | The compressor is abstracted to a ratio per content. `MaxOutputSize` is `lz4_flex::block::get_maximum_output_size` as that crate documents it (16 + 4 + 1.1 × len). The crate's source is not in this repository. |
| `prompt/context.rs` | A read-only template view. |
| `extract/tokenize_document.rs` | Not in the module tree. |
| `dump/.../compat/mod.rs` | Two pure string functions; their caller, the v1 settings reader, is not in `src/`. |
| Filters, field selection and vectors of the read routes | They select among the documents some_documents returns; they do not change how a document is decoded. |
| Per-document failures inside a batch | Spec 7 lets one document fail its own task, but spec 4.G and 8 say a batch succeeds or fails as a whole. The models follow 4.G and 8. |
| `tasks/task.rs`, `tasks/error.rs` beyond the task records | `TaskError`, `Job` and `TaskContent` are data types with no behaviour; the scheduler that would use them is not in `src/`. |
| `dump/src/reader/v3/errors.rs` | A private frozen table of the v3 dump reader. Nothing in `src/` builds a response from it. |

## Defects seen while modelling, without a run

- After a panic of the parsing task, a deletion error other than NotFound is only logged (documents.rs:470-475), and the persisted payload file stays with no task. `Parse` models this path and `NoOrphanPayload` would report it, but `ingest_panic` keeps deletions reliable so that its trace shows the register panic.
- In `store_read`, a second trace violates `ReadReturnsStored`: a document is written raw, then the dictionary is trained, then the document is read. `some_documents` decodes the raw bytes as lz4 (compressed_obkv_codec.rs:44). Spec 2 says readers must be prepared for mixed populations.

A later model could add a startup sweep of orphan payload files, if the scheduler code becomes available.
