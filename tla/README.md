# A TLA+ model of the endee vector database

endee is a single-process vector database: an HTTP server (`src/main.cpp`) over an `IndexManager`
(`src/core/ndd.hpp`) that keeps any number of indices. Each index is an HNSW graph in memory, MDBX
databases (string ids, vectors, metadata, filters), optionally a sparse inverted index, a saved
image of the graph, and a write-ahead log. This directory holds specifications of its core logic,
the TLC configurations that check them on small instances, and proofs checked by TLAPS. Paths below
are relative to the repository's `src/`.

## 1. Inventory

| Component (source) | State it keeps | Operations | What makes it correct |
|---|---|---|---|
| `IDMapper` (`src/storage/id_mapper.hpp`) | string id -> numeric id; list of freed ids; next id | `create_ids_batch` (four transactions), `deletePoints` | one owner per id; a freed id is nobody's; no id handed out twice; ids do not move |
| `WriteAheadLog` (`src/storage/wal.hpp`) | `wal.bin`, `entry_count_` | `log`, `readEntries`, `clear`, reopen | what is read is what was written; the log covers everything not saved |
| `HierarchicalNSW` (`src/hnsw/hnswalg.h`) | elements, labels, levels, links, deletion marks, counts, entry point | `addPoint<new>`, `addPoint<update>`, `markDelete`, `searchKnn`, `saveIndex`, load, `resizeIndex` | a label once in the graph; counts equal to what they count; lists within degree and level; a search finds what it can reach |
| `VectorCache`, `VisitedListPool` (`src/hnsw/`) | slots with lives, lock stripes; lists of visit tags | get, insert, invalidate; take, reset, release | the cache gives no replaced vector; a search sees its own visits and nobody else's |
| `VectorStorage` (`src/storage/vector_storage.hpp`) | vectors, metadata and filters by numeric id | `store_vectors_batch` (three transactions), `get_meta`, `updateFilter`, `deleteFilter` | the three agree on each id; a failed transaction leaves nothing behind |
| `Filter` (`src/filter/*.hpp`) | schema, category bitmaps, numeric forward index and buckets | add, remove, range, conditions | a condition finds exactly the vectors that satisfy it; buckets and forward index agree; a field keeps its type |
| Sparse storage and inverted index (`src/sparse/`) | documents, posting rows with tombstones, headers, `term_info_`, `vector_count_` | store, delete, open, search | postings are those of the documents; the maxima bound them; a search gives the best k |
| `IndexManager`, one index (`src/core/ndd.hpp`) | the cache entry: graph, `updated`, `operation_mutex` | `addVectors`, `deleteVector`, `deleteVectorsByFilter`, `updateFilters`, `saveIndex`, `loadIndex` + `recoverFromWAL` | an acknowledged operation survives; mapper, graph, storage and filters agree |
| `IndexManager`, the cache of indices | `indices_`, `indices_list_`, `wal_logs_` | `getIndexEntry`, `evictIfNeeded`, `createIndex`, `deleteIndex`, `restoreBackup`, autosave | no acknowledged write lost, map and list agree; the dirty are kept; no one waits for ever |
| `BackupStore` and the backup job (`src/storage/backup_store.hpp`, `ndd.hpp:1779-2038`) | active backup per user, tar files, `backup.json` | create, delete, upload, restart (and list, info, download, which read) | a tar is one moment of an index; a finished backup stays; nothing is left behind |
| Index metadata (`src/storage/index_meta.hpp`) | parameters and element count | store, update count | the count of a saved index is that of its elements |
| Quantization kernels, HTTP routes, authentication | - | pure functions; parsing and dispatch | not modelled |

**How they interact.** A route calls the `IndexManager`; it finds or loads the cache entry
(`getIndexEntry`), takes the entry's `operation_mutex` and calls, in order, the mapper, the storage,
the sparse store, the log and the graph; when the log has `save_every_n_updates` records it saves the
graph and clears the log. Readers take no such lock: a search takes a visited list and vectors from
the cache or the storage, and asks the filters for the ids it may return. An insert links its vectors
with several threads. An autosave thread and detached backup threads run beside the requests. MDBX
transactions, and log records after `flush()`, survive the death of the process; the graph in memory
does not.

**What is hard.** (1) An insert is nine durable or visible steps in five stores, none of which is
atomic with another, and the process may die between any two. (2) Ids are reused: every store that is
keyed by a numeric id must agree on whose it is. (3) A step may fail and leave the earlier ones done;
what is kept in memory beside a database is not taken back. (4) `indices_` is read without the lock
that guards its changes, and recovery runs on an entry other threads can see. (5) Additions relink
each other's lists; searches run through lists, caches and pools that others change or replace.
(6) Counters of 16 bits wrap, unsigned ones go both ways. The full list, each at its line and with
the properties that would catch it, is `hazards` in `PROJECT.json`.

## 2. Modules

| Module | What it is |
|---|---|
| `IdMapper` | `IDMapper`: the mapping, the free list, the counter, and `create_ids_batch` as the four transactions it is made of; any prefix of them may be abandoned |
| `Wal` | the log's records and what `readEntries()` returns for them |
| `HnswLabels` | labels, marks and counts of a graph; `addPoint`, `markDelete`, `getElementsCount` |
| `IndexStore` | one index: EXTENDS the three above with the vector, metadata and filter stores, the saved image, the dirty flag, and every operation that holds `operation_mutex`, step by step; the death of the process between any two |
| `IndexPlain` | what holds of one index when nothing fails and requests are well-meant (`WellMeant`), as an inductive invariant of the same specification |
| `VectorMap` | the abstract promise: a map from string ids to vectors, one request at a time |
| `HnswGraph` | the links of a graph: additions and updates by several threads, the repair of neighbours, the entry point, deletions, and the search of levels and base layer |
| `SearchMemory` | what searches share: visited lists, the cache of vectors, and the resizing under them |
| `NumericIndex` | one field's buckets: put, removal, split, range queries |
| `FilterIndex` | EXTENDS `NumericIndex` with the schema, the category bitmaps, conditions, and the changes `VectorStorage` makes, a transaction for each field |
| `PostingBlocks` | the blocks a posting list is cut into |
| `SparseIndex` | sparse vectors, posting rows, headers, `term_info_`, and transactions that may be given up |
| `SparseSearch` | one search of the posting lists: windows, tombstones, pruning |
| `Backup` | the backups of one user: the request, the detached job with its error handler, upload, deletion, `backup.json`, a restart, among writes to the indices |
| `IndexCache` | the cache of indices: lookup without a lock, load and recovery of a published entry, eviction, creation, deletion, restore, autosave, and the writes and reads that use an entry |
| `MC*` | the instances for TLC |
| `*Proofs` | the inductive invariants and the theorems that follow: of `IdMapper`, `IndexStore` and `IndexPlain` in `IndexProofs`, of `NumericIndex` in `FilterIndexProofs`, of `SparseIndex` and `SparseSearch` in `SparseProofs`, of the others in a module of their name; `SumProofs` has the lemmas about sums and maxima |

State and code. `idmap`, `deletedIds`, `nextId` are the keys of the mapper's database; `batch` is the
local state of `create_ids_batch` between its transactions. `vec`, `meta`, `filt` are the vector,
metadata and category databases by numeric id (`meta` keeps the string id and the filter, the two
fields later operations act on). `wal`, `walCount` are the file and `entry_count_`. `mem` and `disk`
are `entry.alg` and the `.idx` file, `updated` and `loaded` the flag and the presence of the entry.
`op` is the operation that holds `operation_mutex`, with its local variables; `op.stage` is the next
step. `vecWriter` is the thread whose MDBX write transaction on the vector store is open although its
request has ended. `promise` is a history variable: what the last answer about a string id said.

An operation is a chain of actions, one for each transaction, log call or change of the graph:

    addVectors:  BeginAdd, AddTakesDeleted, AddTakesFresh, AddLogsIds, AddWritesMappings,
                 AddStoresVectors | AddFindsBadVector | AddFindsOwnTransaction,
                 AddStoresMeta, AddStoresFilters, AddLogsOps, AddToGraph, save?
    deletions:   DeleteByName | DeleteByFilter, (DeleteUnmaps, DeleteMarks)*, DeleteLogs, save?
    filters:     BeginRetag, RetagRemoves, RetagStoresMeta, RetagAdds
    save:        SaveImage, SaveClearsWal, SaveCounts
    load:        Load (reads the image and the log), RecoverEntry*, RecoverEnds, then the save

In `Backup`, each request has a `pc`, its parameters (`req`) and what its code holds in local variables
(`out`, `info`, `seen`). `active` is the user's entry in `active_user_backups_`, `mutex` the
`operation_mutex` of each index, `sidecar` the metadata.json a job leaves in an index's directory,
`json` is backup.json. `tmp` and `final` map a backup's name to a file, `file` says what a file holds:
a path may come to name another file while a job still writes to the one it has open. What an index
holds is counted in writes: `db` its databases, `mem` the graph, `image` the saved graph, `count` the
element count in its metadata.

    create:   Begin, AskActive, AskTar, StartJob (answered; the thread goes on with:)
              JobFindsTar, JobReadsMeta | JobIsRefused, JobLocks, JobSaves, JobDescribes,
              JobOpensTar, JobFillsTar | JobFailsToTar | JobThrows, JobUnlocks, JobClears,
              JobRenames, ReadJson, OpenJson, WriteJson
    failure:  FailTmp, FailFinal, FailInfo, FailClear
    delete:   Begin, DeleteTar, ReadJson, OpenJson, WriteJson
    upload:   Begin, UploadFindsTar, UploadOpens, UploadFills | UploadFails

In `IndexCache`, each request has a `pc`, its parameters (`req`) and the number of the entry it has a
reference to (`ref`). `indices` and `list` are `indices_` and `indices_list_`; `mapMutex` and the
`holder` of an entry are who holds `indices_mutex_` and its `operation_mutex`. Entries and directories
of an index are numbered in the order they are made, so that a reference to an erased entry, or a log
still open in a directory that was moved away (`wal`), can be told from the present one. What a graph,
an image or a log holds is the set of writes in it.

    lookup:   Find, (LockMap, (LoadFails | Load, ReadLog, (Replay, save)?, Evict, EvictLast*,
              EvictEnds)?, Fetch)?
    write:    Begin, lookup, LockOp, LogFails | LogWrite, Link, Mark, save?, Unlock
    save:     SaveImage | SaveFails, SaveClear, SaveDone
    create:   Begin, CreateAsks, LockToEvict, Evict.., CreateOpens, CreatePublishes,
              CreateStoresMeta, lookup, LockOp, save, Unlock
    delete:   Begin, LockToErase, Erase, Move
    autosave: Begin, Autosave, lookup, LockOp, save, Unlock
    read:     Begin, lookup, Read
    restore:  Begin, RestoreAsks, RestoreCopies | RestoreFails, RestoreStoresMeta, RestoreLoads,
              ReadLog | RecoveryFails, (Replay, save)?, RestoreAnswers

In `HnswGraph` an element is its internal id; `level`, `at` and `links` are its level, the vector the
graph reads for it and its list at each level, `marked` and `deletions` the marks and their count,
`entry` and `maxLevel` the two variables a search starts from. `task` is the `addPoint` each thread is
in; its step is the search of one level with the write of the element's own list (`Link`), the
relinking of one neighbour under that neighbour's lock (`LinkBack`), the removal of its connections
at one level (`Unlink`), or the write of `entryPoint_` (`SetEntry`) or of `maxLevel_` (`SetTop`).
`searchBaseLayer`, `searchKnn` and `getNeighborsByHeuristic2` are recursive functions over the state.

    new:      AddNew, Seek, (Link, LinkBack*)*, SetEntry?, SetTop?, Return
    update:   Update, Unlink*, Seek, (Link, LinkBack*)*, Return

In `SearchMemory`, `pool`, `tag`, `mass` and `size` are the pool and the three fields of a visited
list, `held` is whose it is; `slot` is the cache, `read` what a thread reads of it (a pointer, under
the shared lock of its stripe) or has fetched from the storage and may put into it.

    search:   TakeList | NewList, (VisitCached, EndView | VisitStored, Fill)*, ReleaseList
    update:   Store, Invalidate
    save:     Resize

In `NumericIndex`, `forward` is `numeric_forward`, `index` the buckets by key, each with its entries
and `summary_bitmap`. In `FilterIndex`, `schema` is `schema_cache_` and `saved` the database's copy,
`category` the bitmaps, `op` the change under way with the fields still to do.

    insert:   Insert, AddField*                 update, removal: Update, RemoveField*, StoreMeta,
    any:      GiveUp | Restart                                   AddField*

In `SparseIndex`, `db` is what is committed and `work` what the open transaction sees: vectors, rows
(`sparse_docs` and the blocks of each term) and headers; `info` is `term_info_`, `count` is
`vector_count_`, neither of which a transaction takes back.

    store:    StoreBatch | StoreFails, Commit | CommitFails
    delete:   DeleteVector | DeleteFails, Commit | CommitFails        open: Reopen

In `SparseSearch`, `cur` is where each iterator is, `scores` the buffer of a window, `top` the queue.

    search:   (Window, Scan*, EndWindow)*, NoMore

Abstractions. In `IndexStore` the parallel `addPoint` calls of one insert are one step that leaves,
for a label that occurs twice, the vector of any of its positions; adding the ids of a batch to the
bitmaps of several filters is one step; filters are one category field; `updateFilters` carries one
update; eviction and load happen only between operations; the search is taken to return every live
label (`HnswGraph` is about how far that is so). Torn log records are left out (`log()` flushes
before it returns). In `HnswGraph` vectors are points on a line, and ties are broken by id (the code
leaves them open; in the instances no two points are equally near a third); the search of one level
is one step, so that reading a list while another thread rewrites it is left out, as is the give-up
of a filtered search after many refused elements, and the flags of a new element are taken to be
clear, which the code does not see to. In `SearchMemory` a graph is resized once. In `FilterIndex`
only one field is ever given numbers; a changed vector's filter settles before the next change
(`operation_mutex`). In `SparseIndex` weights are small naturals and the byte a weight is rounded to
has `Levels` levels; in `SparseSearch` the snapshot and `term_info_` agree, which `InfoFresh` and
`HeadersExact` are about. In `Backup` a write is two steps, the databases and the graph; each
request is made once; a restart comes only when no plain write holds an index; an entry of the cache
stays valid while a job holds a reference to it; a thread can be started. In `IndexCache` the writes
are updates and deletions, whose log records recovery does replay; the 60 minutes the autosave waits
for are left out; an `unordered_map` read while another thread changes it either gives the entry or
does not, and the changes a restore makes without the lock are single steps; and a request that uses
an entry after it was erased (by an eviction or a deletion), or a restore that copies over open
databases, may do anything, so the model stops there (`undefined`): its properties are those of
behaviours in which this has not happened. It does happen: the instance of `cache` reaches it when a
deletion, or the eviction that follows a load, comes between the lookup of a request and its use of
the entry. The guard of `operation_mutex` in `deleteIndex` is released after the entry it lies in
was erased; that is taken to have no effect.

History variables (`promise`, `acked`, `seen`, `late`, `grown`, `torn`, `saveFailed`, `wrapped`, `stale`,
`rewritten`, `stray`, `overlap`, `raced`) record what happened for the properties; no guard that
models code reads them, but for bounds.

The definitions named in `mutants` of `PROJECT.json` (`TakeDeletedKeepsList`, `EvictDirty`, ...) are
plausible mistakes in the code. Each stands before the action it deforms and is used by no
specification: put in its place it makes one property fail, which shows that the property watches it.

## 3. Runs

| Run | Checks | Result |
|---|---|---|
| `id_mapper` | 3 names, ids up to 4, every batch of up to two names, the same one twice included | the inductive invariant `IdInv` (one owner for an id, the free unowned, the fresh above all); no name's id moves |
| `plain` | 2 names, 2 vectors, 3 ids, requests as the authors had them in mind, no crash | the index implements `VectorMap`; mapper, graph, metadata, filters and counts agree; acknowledged inserts and deletions survive saving, eviction and load; the log covers what is not saved, replaying it rebuilds the graph unless it holds an insert; every request is answered |
| `crash` | 2 names, 2 ids, rough requests, one crash anywhere | the index drives the mapper only as `IdSpec` allows; the log is cleared only when the image holds what it records; `IndexInv`, the invariant that is proved (no label enters the graph twice, nothing stored refers to an id still to be handed out, the deletion count never falls short) |
| `backup` | two backups at once, of one name or two, one index or two, either failing anywhere; or one with an upload under its name or another, or with a deletion; a write to each index, one restart | a tar is a snapshot of one moment (`BackupInv`); nothing is left behind; the active backup ends; if jobs and uploads share no name and jobs no index, a backup under its final name is complete, holds the description a restore needs, and stays until it is deleted |
| `cache` | three indices, memory for one, three requests: writes, reads, saves, deletions, a creation, a re-creation, a restore | no acknowledged write is missing from image and log, nor from an index in memory; map and list of indices agree; no index leaves memory unsaved; the eviction loop and every request end |
| `sparse_index` | four documents in two blocks, two terms, every sequence of batches, removals, failures, reopenings | live postings are those of the stored vectors; headers say what rows hold; `term_info_` is what the headers say unless a transaction was given up; the count is right unless one was or a vector was stored over |
| `sparse_search` | all pairs of lists over 5 and 3 ids, triples over 4, 3 and 3, k of 1 and 2, with and without a filter, windows of 2 ids | every answer is a best k; every search ends |
| `filter` | three vectors, two fields, buckets of two entries with a reach of 3, counts modulo 4, numbers of both kinds, values of the wrong type, one change cut short | range queries and conditions find exactly what they should; a field keeps its type |
| `hnsw` | four elements, two levels, lists of 1 and 2, two threads, one update and one deletion | lists stay within degree and level; the entry point has the top level; a search gives k results whenever it can reach k, and the nearest with a large `ef`; an updated entry point is linked again |
| `memory` | two searches, three lists, three tags, one slot for two vectors, one resizing | lists are not shared; a search sees exactly its own visits; lists are as large as the graph; a vector in use is not overwritten; the cache is fresh |
| `lost_insert`, `entry_orphaned` | one statement of a comment each | violated: see `findings` |

**Disagreements with a run**

- **lost_insert.** `readEntries()` expects a string after every `VECTOR_ADD` which `log()` never
  writes, so an acknowledged insert is not replayed after a crash, and the save that ends the
  recovery clears the log (or the read throws and the index serves without its inserts). For
  the same reason the ids of an interrupted insert are never reclaimed.
- **entry_orphaned.** An update of the first vector of an index (internal id 0) removes its
  connections; the linking that should follow is skipped for id 0. While it is the entry point, every
  search and every later insert starts from an element without links.

**Disagreements met while modelling, without a run of their own.** The properties of the passing runs
name these cases as exceptions, or their instances leave them out:

- When every candidate of a level is marked deleted, `mutuallyConnectNewElement` returns element 0
  (`hnswalg.h:1274`), and the search of the next level down starts there, although element 0 may have
  upper levels and not that one: `get_linklist`, whose check of the level is commented out, then reads
  a list behind the element's memory. It takes three upper levels, an element 0 with fewer and an
  entry point that has been deleted: with `Capacity = 3`, `Top = 3` and one thread, TLC finds
  `~Undefined` violated. `GraphNext` ends there, as anything may follow; what `hnsw` checks is the
  graph as long as that does not happen.
- A batch that repeats a new string id makes two labels of it; deleting the name removes one, and
  search still returns the other (`PromisesKept` in the requests of `crash`).
- After a crash that left a name mapped to a reused id whose metadata is still another object's,
  deleting the name drops the mapping of the object the metadata names (`ndd.hpp:1179`).
- An insert refused for a vector of the wrong size leaves its write transaction open
  (`vector_storage.hpp:272`); the inserts of all other threads then wait for ever.
- An upsert with another filter leaves the id in the bitmap of the old one (`Agreement` in the
  requests of `crash`).
- A crash between the rename of the image and the clearing of the log replays deletions on a graph
  that has them, and each is counted twice.
- The active backup is looked up and set under the mutex, but not in one hold of it
  (docs/backup-system.md:52): two backups of one user run at once. Of two jobs of one name, the one
  renames the temporary tar the other has just truncated, or fails and removes the final tar of the
  other; a job that fails removes the metadata.json of another job of the same index before it is in
  the tar. An upload may be written over a finished tar, or removed by the rename of a job, if both
  found no such file before. `FinalWhole`, `FinishedKept` and `TarDescribed` are therefore about jobs
  and uploads `Apart`.
- An index being loaded can be found before its log is replayed: a write that does so, and saves,
  clears the log of acknowledged writes its graph does not have (`Durable`, were a write of x2 asked
  beside another load of it: without `RecoveryAlone`, see section 4).
- `deleteIndex` leaves the log of the index in `wal_logs_`, open in the moved directory. Creation
  hides it by a save; a restore does not: after a read, a deletion and a restore of one name,
  acknowledged writes are logged in the deleted directory until the next save, and a crash loses them
  (`Durable`, were a write of a restored index asked: without `LogOfDirectory`).
- `restoreBackup` asks for the metadata and copies the backup later, and `createIndex` opens databases
  that may have been made since it asked: a restore beside a creation and a write of one name puts the
  backup over the acknowledged write (`Durable`, without `MadeAnew`).
- When two requests create one index and a third deletes it between their openings of its databases,
  or a creation and a restore meet a deletion so, the list has the index twice (`CacheShape`).
- In a field with integers and floats, a float greater than 0 is above every integer
  (`numeric_index.hpp:18-41`; docs/filter.md has one type Number).
- 2^16 entries of one number in one bucket are lost (`RangeExact` until the count `wrapped`).
- A search that caches a vector it read before an update leaves the old one in the cache until it is
  evicted (`CacheFresh` unless `late`); a save that resizes the graph frees the pool that running
  searches release their lists to, and moves the vectors they read (`ListsFit` unless `grown`).
- Two insertions that raise the top level at once may leave `maxLevel_` above the level of
  `entryPoint_` (`EntryTop` unless `raced`); additions at once may leave an updated entry point alone
  (`SeedReinserted` unless `overlap`).
- A single update may leave the entry point alone too, other than element 0. `removeAllConnections2` takes
  an element out of the lists of those it lists; one whose own list has been pruned may still be listed
  by others. The search of an upper level then comes upon the element itself, which is nearest to its own
  vector; the next level is searched from it (`hnswalg.h:702`), after its links there were removed, and finds
  nothing else. `SeedReinserted` is up to this case (`FoundItself`). It takes five elements, one more
  than `hnsw` has: with `Capacity = 5`, `Top = 1`, `M = 1`, `EfConstruct = 2`, one thread and the vectors
  4, 0, 9, 6 and 11, of which the third is the entry point and moves to 1, TLC finds it alone.
- `term_info_` keeps what an aborted transaction changed, so a search may prune what it should
  return, or miss a term, until the index is opened again (`InfoFresh` unless `stale`). Storing a
  vector again counts it again, and leaves the postings of the terms it no longer has (`CountExact`
  unless `rewritten`; `PostingsExact` up to `stray`). A vector of 2^16 or more terms loses them.
- `connectPair` locks two lists in the order of ids, but locks are striped by id modulo 65536: two
  pairs of a large graph can wait for each other.

**Bounds.** Two names are enough for any sharing, repetition or exchange of ids between objects; three
ids let an id be freed, reused and a fresh one be needed beside it. `SaveEvery = 3` makes both
outcomes of the length check happen. `MaxLog` and `MaxDel` only stop new requests: a request begun is
never cut off. Without failures a save empties the log long before `MaxLog`; after failures, which are
never followed by a save, log and deletion count would grow without end. `MaxId` stops new requests that
could need an id beyond it. One crash per behaviour (`MaxCrashes`) is enough for the disagreements;
two were not needed by any. In `backup`, two jobs are enough for every race over a name, an index or
backup.json, and one write to an index (`MaxWrites`) to tell a moment before it from one after it.
`SizeRange` stands for 2^64 in the unsigned subtraction. In `cache`, sizes of 3, 2 and 1 with memory
for 1 make every load evict, over a dirty index and over a clean one; `SaveEvery = 2` makes both
outcomes of the length check happen; `MaxEntries` is more than three requests can make. In `filter`
buckets of two entries split at the third, over equal and over different numbers, and the count wraps
at 4; in `sparse_index` a block of three ids and one of one, two levels of rounding, half a row of
tombstones to compact, and a vector of as many terms as the count wraps at; in `sparse_search` blocks
and windows of two ids, so that a search of ids up to 6 has several of each and ends where the window
would wrap. In `hnsw`, with a degree of 1 a list of the base layer is pruned at its third neighbour;
the margins that end a search early are 0, the strictest value. In `memory` three tags wrap at the
third use of a list.

**Deadlock** is checked except in `crash` and `lost_insert`, where an insert waiting for the
transaction another thread left open, and the bounds on ids, may stop the system; in `hnsw` and
`entry_orphaned`, where the graph is full in the end; and in `sparse_search`, which ends. `Backup` and `IndexCache` end when every request is answered; `Rest` says that they may
then stay so, and any other standstill is a deadlock.

**Fairness.** `FairSpec` of `IndexStore` assumes only weak fairness of `Step`, the steps of a request
under way: a server thread that holds `operation_mutex` goes on unless a step is blocked. Nothing is
assumed of clients, evictions, loads or crashes, and `Crash` is not fair. In `Backup`, `FairSpec`
assumes weak fairness of the steps of each request or job, and of the end of a write: a thread that
can go on does. That suffices for a job that waits for `operation_mutex`, because writes are bounded
by `MaxWrites`; nothing is assumed of requests to come, and `Restart` is not fair. `IndexCache`
assumes the same of the steps of each request, and `SparseSearch` that a search goes on.

## 4. Proofs

The first part of `IndexProofs` proves about the id mapper, for every set of names, every set of batches over them and every bound on
ids, `IdSpec => []IdInv` and from it `IdTypeOK`, `OneOwner`, `FreeIdsUnowned` and `IdsBelowNext`. The
only assumption is `IdMapperAssumption` (batches are sequences of names, the bound is a natural
number).

`OneOwner` and `FreeIdsUnowned` are not inductive. `WriteMappings` writes ids chosen two transactions
earlier; it keeps `OneOwner` only because what the batch holds is held by nobody else
(`TakenIdsUnshared`), because what it read still holds when it writes (`LookedUpHolds`, which is what
`operation_mutex` buys), and because it has exactly as many ids as new positions (`TakenEnough`).
`IdsBelowNext` is needed for fresh ids to be new. The one combinatorial fact is that `Rank` is
injective on the new positions of a batch, so that different positions get different ids
(`RankInjective`, from the cardinality theorems); that the last position of a repeated name exists
needs a least-element lemma on the naturals (`LeastExists`, from well-foundedness). Then there is one
lemma per action.

`IdsAreStable` is the action property that goes with them: a name that has an id keeps it until the
name is dropped.

The second part of `IndexProofs` proves about one index, for every set of objects, batches, labels and threads, every
`SaveEvery` and every number of crashes at any step:

- `IndexImplementsMapper`: `Spec => IdSpec`. However `addVectors`, the deletions, recovery and crashes
  drive the mapper, each of their steps is a step of the mapper or leaves it alone, so every theorem
  proved of the mapper holds of the mapper inside the index.
- `LabelsAlwaysBelowNext`: nothing stored (graph, image, log, metadata) names an id still to be handed out.
- `FreshLabelsAlwaysAbsent`: an id the mapper called new is not in the graph when `addPoint<true>` gets it.
- `DeletedAlwaysCounted`: the unsigned count of deleted elements never falls below the marks it counts,
  so `getElementsCount` may report too few elements and never too many.
- `LogAlwaysClearedWhenSaved`: the log is cleared only when the image on disk is the graph in memory.
- `IndexTypeCorrect` and `IndexInvariant`, which they rest on.

The assumptions are those the modules state: `IdMapperAssumption`, `HnswAssumption` (labels are
natural numbers, "no vector" is not a vector, the modulus of the unsigned count is positive) and
`IndexStoreAssumption` (the labels are the ids up to the bound, batches are sequences of objects).

`IndexInv` adds to the properties what an operation remembers between two transactions.
`FreshLabelsAbsent` speaks of the last step of an insert, which learned five transactions earlier
which ids are new: `TakenFreshAbsent` carries the fact from the transaction that takes the ids to the
graph, and needs `LabelsBelowNext` at its start. `LabelsBelowNext` needs the ids an operation holds
(`OpLabelsBelowNext`) and those it may still take (`IdsFit`). `DeletedCounted` must hold of the image
as well, which becomes the graph at the next load (`SavedDeletedCounted`). `LogClearedWhenSaved` is
about one action, whose guard is only that the stage is "clear": `SavedBeforeCleared` says that nothing
has touched the graph since the image was written, which is what `operation_mutex` buys. `OpShape` and
`BatchIsOps` tie the position, lists and batch of an operation to its stage. Types, bounds, labels,
counts and fresh ids are then preserved one group at a time, one lemma each.

The third part of `IndexProofs` proves what the run `plain` checks, for any names, objects, filters, vectors, ids,
threads and lengths of the log, under the hypothesis `WellMeant`:

- `PromisesAlwaysKept`: what was acknowledged of an object stays true until a request is about it.
- `StoresAlwaysAgree`: between requests mapper, graph, metadata, bitmaps and counts describe one set.
- `AlwaysRecoverable`: the log covers what the image lacks; unless it holds a new object, the recovery,
  were it to come between two requests, would make the very graph that is in memory; and what may be
  evicted is saved.
- `IndexImplementsMap`: every behaviour of the index is one of `VectorMap`, the refinement mapping being
  `StoredVec` and `Requested`; each write of a request takes effect in one step, and no other step
  changes an object.

`WellMeant` says that the process does not die, no vector has the wrong dimension, a batch repeats no
name, an object is inserted with one filter only and `updateFilters` sets that filter or none, and
labels are below the range of `size_t`. `MCIndexPlain` states it of the
instance of `plain`, where TLC evaluates it. None of the clauses is there for the proof alone: with a batch that repeats a name,
an upsert that changes the filter, an update to another object's filter, or a vector of the wrong
size, TLC finds `Agreement` violated; `lost_insert` shows what a crash does. These are the
disagreements of section 3.

The inductive invariant is `PlainInv` (`PlainInvariant`; TLC finds it true of the instance of `plain` when
it is listed there). It says, of every state in the midst of a request, what each store holds but for the labels the
request is at. `LiveOwned`, `NamesStored`, `BitsExact` are the agreement with that exception.
`FreeMarked` and `TakenMarked` say that a freed id waits in the graph marked deleted, from the deletion
until an insert that took it reaches the graph: the update path, which un-deletes, then finds it, and the count of
deletions is exact (`DelExact`). `DeleteDrops` says which names a deletion by filter has dropped so
far; it needs that the bitmap has only owned ids, so the agreement of the stores is part of what makes a
deletion right. `LogCovers` and `Replays` say how graph, image and log differ: `MarksReplay` and
`VectorsReplay` give graph from image and log, `RecordsReplay` says that no record follows the deletion of its id,
which is why the order of replay does not matter for marks; a deletion under way has `Dropping` marked and not
yet logged. That the recovery, a recursive function over the log, does what `Replays` says is proved
by a least counterexample (`RecoveryFollows`, `RecoveryReplaysLog`).

`BackupProofs` proves, for any requests over any names and indices, any number of writes and restarts,
and any failures, `TarAlwaysExact`: a tar that a job has finished holds databases and graph of one
moment, and no write acknowledged before the backup was requested is missing, although nothing keeps
two jobs of one name, one index or one temporary file apart. `BackupTypeCorrect` includes that no file
is ever reached by two names. The assumption is `BackupAssumption` (requests ask for what they may,
"no request" is none). `TarExact` is about the step that fills the tar, and follows from what the job
has kept true since it took the lock: that it holds it (`LockHeld`), that between two writes graph and
databases agree (`Quiet`), that what it saved is still in the graph (`SavedHeld`), and that writes are
never undone (`AskedReached`). `WritersBegun`, `UploadsUpload` and `Asked` identify who wrote a file;
`PathsOpened` says that a path leads to the file of the request that made it, from which follows that
a file newly opened has no other name.

The other properties of the run are proved from the same invariant, with what it says of the steps
between: `PathsNamed` (a path leads to a file of a request for that name), `Separate` (requests `Apart`
each write their own file, to its end), `Tidied` (what a job leaves for a while, a job is still there to take away), `InfoRead` and
`InfoWritten` (the description a job read, and the one in the tar, is known).

- `NothingLeftOver`: when all is over and the process has not died, no job has left anything behind.
- `FinalsAreWhole`, `TarsAreDescribed`, `FinishedBackupsStay`: for jobs and uploads `Apart`, and only for
  them, a backup under its final name is complete, can be restored, and stays until it is deleted.

`SearchMemoryProofs` proves, for any number of searches, lists, elements, tags, slots, stripes and
updates: `ListsStayApart`; `SearchesSeeOwnVisits`, for which the invariant `VisitInv` adds that no tag
in a list is above the list's current one (`TagsBelow`), so that the next tag is new to it, and the
clearing at the wrap makes 1 new again; `ViewsStayTrue`, because the stripe of a lock is a function of
the slot, not of the id; and `CacheStaysFresh`, because every way a vector gets into the cache or the
storage either leaves the two equal or is remembered in `dirty` or `late`; both are inductive with the
types. `ListsStayFit` follows likewise: until the graph grows, every list made has its size. The assumption is `MemoryAssumption` (at least two tags, one
slot and one stripe; more lists than searches).

The first part of `FilterIndexProofs` is about one numeric field, for any ids, numbers, size, reach and
count of buckets, from `NumericAssumption` (the size is at least two and below the modulus of counts):

- `Inv`, its inductive invariant. `Shaped` says that an entry lies in the bucket that covers its number
  and within its reach, that no other bucket starts in between, and that what is no bucket is empty; it
  outlives a wrapped count, and bounds the numbers a split chooses from. `Exact`, until a count wraps,
  says that buckets are smaller than the modulus, bitmaps are the ids of their entries, and the buckets
  hold exactly the numbers of `forward`. A removal (`RemoveShaped`, `RemoveExact`) finds its entry by
  `Found`; an addition is a new bucket, one more entry, or a split (`New*`, `Join*`, `Split*`), whose
  halves are each smaller than the bucket was, as each leaves some entry to the other (`HalvesSmall`).
- `NumericInvHolds` and `RangeExactHolds` follow: the property of the run, for every instance.

The second part is about all the filters, from `FilterAssumption` (only one field is given numbers,
keys are in `Values`, ranges are not inverted):

- `ImplementsNumeric`: the filters' steps are the numeric index's own, so what is proved of it holds
  under them (`FilterRangeExact`).
- `FilterIndexInv`, inductive: `Entered` says of every vector whose change was not cut short that both
  indices hold of it exactly the fields `Indexed` names (all, in the midst of a removal those still to
  do, in the midst of an addition those done), each under the type its field has; and that these fields
  have a type, so that binding a field changes nothing that is indexed. While every schema was saved the
  saved one is the one in use, so that a restart changes no type.
- `FilterExactHolds`, `FilterInvHolds`, `TypesBoundHolds`: the run's properties, for any filters,
  conditions, vectors and number of changes cut short.

The first part of `SparseProofs` proves about the stored sparse vectors, for any terms, documents, blocks, vectors, weights,
levels of the code, limit of terms and share of tombstones, from `SparseAssumption` and
`BlockAssumption` (documents are
finitely many natural numbers, terms and weights are natural numbers; sizes and levels are positive):

- `SparseInv`, inductive, says the same of the committed view and of the open transaction's: the
  postings of a term that are alive are those of the stored vectors, up to `stray`, and the header is what its
  rows hold. It is proved one term at a time: each operation is a function of a term's rows and header
  (`AddTerm`, `RemoveTerm`), and one lemma says of each what it does to the living and that
  it leaves the header exact (`AddTermExact`, `RemoveTermExact`).
- `PostingsStayExact`, `HeadersStayExact`: the properties of the run. The rounding to bytes is where the header
  could go wrong: a row is decoded, changed and coded again with another top weight.
  `QuantizeFits` and `DequantizeFits` say that the top weight is coded as the top code and decoded as
  itself, that nothing decodes above it, and that what lives stays alive.
- `InfoStaysFresh`, `CountStaysExact`: `term_info_` and `vector_count_`, while no transaction is given up.

Totals over blocks are folds of the community modules. What is needed of them (a sum of naturals is a
natural, at least each summand, zero only for zeros; a change of one summand changes it by the
difference) is in `SumProofs`, proved by a least counterexample: the library's induction theorems take an operator as
a parameter, which the provers cannot instantiate, but `WFMin` takes a set (`Least`, `SumOfFunction`).
The proof found two mistakes of the model, since corrected: an operator with overlapping CASE arms, and a
live code that integer division decoded as 0.

Its second part proves about a search of the posting lists, for any lists, tombstones, weights,
filter, k and sizes of block and window, from `SearchAssumption` and `BlockAssumption` (lists name finitely many terms;
weights are natural numbers, document ids are below `EXHAUSTED_DOC_ID`):

- `AnswerIsTopK`: the answer is k best of the documents that match, and after each window the queue
  holds k best of those it has passed. The invariant, `SearchInv`, says of the iterators that none has
  passed a posting that still adds to a score (`AheadAll`), and, while a window is looked through, that
  its scores are whole (`ScanSound`). An iterator may be behind by tombstones, which is why it is said
  of postings with a gain and not of positions. Where pruning moves the longest list past all the
  others, `EndWindowTop` bounds what the documents passed over could have: the others have none of
  them, so a score is one gain of that list (`OneScore`), which its bound does not let exceed the lowest score in the
  queue; a document equal to the lowest may be passed over (`PassBest`), as the queue keeps some k best
  and not certain ones.

`HnswGraphProofs` proves about a graph that several threads add to, for any capacity, levels, degrees,
vectors and number of threads, from `GraphAssumption`:

- `EntryAlwaysTop`: the entry point has the level a search starts at, unless two additions raised the
  level at once. The two variables are written one after the other by a thread that compared them
  before it searched; `TopHeld` says that between its writes it is the entry point, and the only such
  thread, and `TasksOK` that what it adds is an element, whose level no longer changes.
- `GraphTypeCorrect`: the types, with the count of deletions exactly that of the marked elements.
- `WellLinkedAlways`: a list holds its degree at most and, at each level, elements of that level only.
  The invariant is `LinkInv`: lists are so (`Linked`), and what a task has yet to do, the element it
  searches from and the neighbours it has still to relink, is about elements that have a list at its
  level (`TaskLinks`), although other additions have changed the lists since it searched. The proof
  goes through every search: the greedy descent, the visits of `searchBaseLayer`, the choice of
  neighbours and the pairing of an unlinked element's neighbours are recursions and folds, of which
  it is shown that they stay in the set of elements with a list at the level (`OrbitIn`, `FoldEnds`);
  that such a recursion has a solution at all is proved first (`OrbitExists`, `FoldExists`). TLC
  checks `LinkInv` on the instance of `hnsw`. The proof showed that the search of a level may start
  at element 0 without a list there (`Undefined`, section 3), which the model had passed over.
- `SearchesComplete`: between additions, a search gives as many different elements, unmarked and allowed
  by the filter, as it was asked for, or all it can reach, and the nearest in order if `ef` covers the
  graph. It follows from `LinkInv` alone. `Reachable` is first shown to be the least set closed under
  following unmarked targets (`ReachableIs`), although it is defined as `Capacity` rounds; then each
  visit of `searchBaseLayer` keeps `Finds`: its candidates and results lie in that set, and as long as
  fewer than `ef` have been found, the results are all the good elements it has seen, and the targets
  of what it has expanded have been seen. As long as fewer than `ef` have been found, every visit expands an element not expanded
  before, so after `Capacity` visits no candidate is left and what was seen is closed (`SearchFinds`).
  The patience that may end a search early only counts visits once `ef` have been found. The hypothesis
  `maxLevel <= level[entry]` is part of the property: a search that starts above its entry point's level
  reads a list that is not there, and `EntryAlwaysTop` says when that cannot be.
- `SeedAlwaysReinserted`: `EfConstruct > 1 => (GraphSpec => []SeedReinserted)`. An updated entry point
  that had a live neighbour to start from has a neighbour again when its update returns, if no two
  additions were ever under way at once, unless it is element 0 or found itself at an upper level. (The
  API refuses an `ef_con` below 8, settings.hpp:31.) `Quiet` follows the only addition under way: an
  update with a seed is of the entry point, so it starts at the top level and from the seed itself,
  which is unmarked and another element (`DescendHas`: nothing is descended). From then on either the
  element the next level starts from is another one, or the element has met itself at a level where
  another lists it or is listed (`FoundAbove`), or it is linked at the base (`Half`). A search that starts
  at another element always has one in its results, as there is room for two (`SearchSpots`), and the
  heuristic that chooses neighbours takes the nearest, and the second if the nearest is the element
  itself, which is no nearer to it than the vector is (`DiverseStarts`). Relinking a neighbour may drop
  the element from the neighbour's list, never the neighbour from the element's. The proof refuted
  the property as it was stated first, without `FoundItself` (section 3).

`IndexCacheProofs` proves about the cache, for any requests, indices, sizes and limits of memory, from
`IndexCacheAssumption`:

- `CacheKeepsShape`: `OneMaker => (Spec => []CacheShape)`. The list names exactly the indices in
  memory, each once, and the sum an eviction works with never wraps. The hypothesis is one about the
  requests, which `MCIndexCache` states of those of the run: an index that may be deleted is created or
  restored by one request only. Without it the property does not hold of the code: `createIndex` puts
  its entry in the list without asking whether the index is loaded, so if the directory is moved away
  between its steps and a second creation publishes first, the list has the index twice.
- The invariant, `CacheInv`, needs besides: who may be between a lock of `indices_mutex_` and its
  release (`Locked`), on which the map and the list of a load or an eviction agree; that while a
  creation has the databases open nobody else makes an entry of the index (`Publishing`), which rests
  on MDBX not opening an environment twice in a process; and that what an eviction still counts is the
  end of the list it has not looked at yet (`Evicting`), so that taking away a size never wraps,
  although lookups without the lock put indices in front meanwhile.
- The proof of `Publishing` showed that the model let a load succeed while a creation had the databases
  open, as MDBX does not (`Loadable`, since corrected).

Three theorems say what lasts, with one more hypothesis, on the behaviour: `Undisturbed`, that none of
three overlaps takes place which the code does not exclude (section 3). It is a predicate of
`IndexCache` and has three parts: while a recovery of an index is under way no write of it gets to the
log, and no save of a changed entry begins before the log is replayed (`RecoveryAlone`); no write is logged in a
directory that was moved away (`LogOfDirectory`); where a restore is about to copy or a creation to
open, nothing acknowledged is there yet (`MadeAnew`). Everything else may overlap: writes of one entry,
writes and saves during an eviction, lookups that find an entry being recovered, deletions at any step.

- `WritesLast`: `OneMaker => (Spec /\ []Undisturbed => []Durable)`. An acknowledged write is in the
  saved image or in the log after every step, so that a process that dies there loses nothing.
- `ServedWhole`: `OneMaker => (Spec /\ []Undisturbed => []Served)`. An index in memory has the
  acknowledged writes in its graph, once the recovery that published it is done.
- `EvictionSaves`: `OneMaker => (Spec /\ []Undisturbed => LeavesSaved)`, an action property: an index
  leaves memory with its graph saved.

None of the parts can be left out: with requests for each, and the other two parts holding of every
state before, TLC finds `Durable` violated (a write beside a load; a write, a deletion, a restore and a
write; a restore, a creation and a write). Nor is the hypothesis empty: added to the invariants of
`IndexCache.cfg`, `Undisturbed` holds of every state of run `cache`, with its deletions, evictions,
re-creation and restore.

The invariant is `LastInv`: `CacheInv`, `Durable` and `Served`, and, until an entry is used that was
erased (`undefined`), `Staged` and, for each index, `Steady`. Durability is not inductive alone, because
a save clears the log on the ground that the image has the graph, and the graph has the log only when
recovery put it there. `Steady` follows a write on that way: it is in the log or the image from the
moment it is logged, in the graph when it is linked, and in what a recovery still holds in between (`Writing`,
`Reading`); the image is part of the graph (`Grown`) and all of it from the save until the log is
cleared (`Saving`); a count of 0 means that the log is empty, which is why a save may be left out
(`LogCounted`); an entry not marked is saved, or the write that holds it is about to mark it (`Clean`),
which is what an eviction goes by. That these speak of one entry and one directory needs that numbers
not given yet are unused (`Numbered`), that one request at most recovers an entry (`OneOwner`), that who
is between `operation_mutex` and its release is its holder (`Holders`), and that a creation publishes an
empty index and a restore one that has the backup (`Opening`, `Restoring`). The proof goes conjunct by
conjunct through the steps, and rests on lemmas of what each step does to the log, the image, the graph
and the marks of one index.

The proof corrected the model in one place: `getOrCreateWAL` throws when the directory of the index
is gone (`LogFails`); the write then neither logs nor links anything.

Only model-checked: liveness (`OpsComplete`, `ActiveEnds`, `RequestsEnd`, `SearchEnds`), which the
provers cannot do. Every invariant and every action property of the passing runs is stated by a theorem,
some under a hypothesis the run meets (`OneMaker`, `Undisturbed`, `EfConstruct > 1`). What a crash may do to
an index is proved only as far as `IndexInv` says it.

## 5. Not modelled, and what would come next

Quantization and distance kernels (numerical code), HTTP routes, authentication, CPU detection and
logging (no state of their own worth checking), `SemanticBI` (an example application), `third_party`
(vendored). Of the modelled components: readers of several databases (`getVector`, the assembly of
search results) against a deletion and reuse of the id; the fusion of dense and sparse results; the
sparse store as a sixth store of an index; saving and loading of the graph's links; the capacity of
the graph against leaked ids; tar archives and `backup.json` as data. Next would come an abstract
specification of the cache of indices: an index is there from its creation to its deletion and keeps
its content.
