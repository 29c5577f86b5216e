------------------------------ MODULE IndexStore ------------------------------
(***************************************************************************)
(* One index of the IndexManager (core/ndd.hpp): insertion, upsert,        *)
(* deletion by id and by filter, filter update, save, eviction, load with  *)
(* recovery from the write-ahead log, and the death of the process between *)
(* any two steps.                                                          *)
(*                                                                         *)
(* Durable: the MDBX databases (id mapper, vectors, metadata, filters), the*)
(* WAL file, the saved graph and the metadata's element count.  Volatile:  *)
(* the graph in memory, the dirty flag, the WAL entry counter, an open     *)
(* write transaction and the operation in progress.  Every operation holds *)
(* the entry's operation_mutex throughout, so there is at most one.        *)
(***************************************************************************)
EXTENDS IdMapper, HnswLabels, Wal

CONSTANTS
  Batches,      \* the sequences of objects an insert request may carry
  BadVecs,      \* vectors of the wrong dimension
  Tags,         \* values of the one category field that filters use
  NoTag,        \* an object without that field
  UpdateTags,   \* the tags updateFilters may set
  NoName,       \* the name in the metadata of an id never stored
  Threads,      \* server threads
  NoThread,
  SaveEvery,    \* save_every_n_updates
  MaxCrashes,   \* bound: how often the process dies
  MaxLog,       \* bound: requests come while the log is no longer than this
  MaxDel        \* bound: ... and while no more deletions are counted than this

Objects == [name : Names, vec : Vecs, tag : Tags \cup {NoTag}]

NamesIn(objs) == [i \in DOMAIN objs |-> objs[i].name]

ASSUME IndexStoreAssumption ==
  /\ Labels = 1..MaxId
  /\ Batches \subseteq Seq(Objects)
  /\ NameBatches = {NamesIn(objs) : objs \in Batches}
  /\ BadVecs \subseteq Vecs
  /\ NoTag \notin Tags
  /\ UpdateTags \subseteq Tags \cup {NoTag}
  /\ NoName \notin Names
  /\ NoThread \notin Threads
  /\ SaveEvery \in Nat \ {0}
  /\ MaxCrashes \in Nat /\ MaxLog \in Nat /\ MaxDel \in Nat

VARIABLES
  vec,          \* VectorStore: label -> vector
  meta,         \* MetaStore: label -> string id and filter
  filt,         \* category bitmaps: tag -> labels
  vecWriter,    \* thread whose write transaction on VectorStore is open
  wal,          \* wal.bin
  walCount,     \* entry_count_
  mem,          \* entry.alg
  disk,         \* the saved .idx file
  updated,      \* entry.updated
  loaded,       \* the entry is in indices_
  elementCount, \* total_elements in the index metadata
  op,           \* the operation holding operation_mutex
  promise,      \* history: what the last answer about a string id said
  crashes       \* how often the process has died

ids    == <<idmap, deletedIds, nextId, batch>>
stores == <<vec, meta, filt>>
log    == <<wal, walCount>>
graphs == <<mem, disk, updated, loaded, elementCount>>
rest   == <<vecWriter, crashes>>
vars   == <<ids, stores, log, graphs, rest, op, promise>>

NoMeta == [name |-> NoName, tag |-> NoTag]

HasMeta(l) == meta[l].name \in Names

Kinds == {"none", "add", "delete", "retag", "save", "load"}

Stages == {"none", "ids", "logIds", "map", "vectors", "meta", "filters",
           "logOps", "graph", "saveCheck", "unmap", "mark", "untag", "tag",
           "recover", "image", "clear", "count"}

\* names: the string ids the request is about; objs, ids, isNew: its batch;
\* pos: the id a deletion has reached; tag: the filter updateFilters sets.
NoOp == [kind |-> "none", stage |-> "none", thread |-> NoThread, names |-> {},
         objs |-> <<>>, ids |-> <<>>, isNew |-> <<>>, pos |-> 1, tag |-> NoTag]

Ops == [kind : Kinds, stage : Stages, thread : Threads \cup {NoThread},
        names : SUBSET Names, objs : Seq(Objects), ids : Seq(Labels),
        isNew : Seq(BOOLEAN), pos : Nat \ {0}, tag : Tags \cup {NoTag}]

WalRecords == [op : WalOps, id : Labels]

Idle == loaded /\ op.kind = "none"

At(kind, stage) == op.kind = kind /\ op.stage = stage

GoTo(stage) == op' = [op EXCEPT !.stage = stage] /\ UNCHANGED promise

\* Requests that fail half way are never followed by a save, so that repeated
\* ones let the log and deletedElementsCount_ grow for ever: hence two bounds.
Begin(newOp) ==
  /\ Idle
  /\ Len(wal) <= MaxLog /\ mem.del <= MaxDel
  /\ op' = newOp
  /\ promise' = [n \in Names |-> IF n \in newOp.names THEN "unknown" ELSE promise[n]]

\* The request is answered: with success, when outcome says what now holds of
\* the string ids it was about, or with an error.
Answer(outcome) ==
  /\ op' = NoOp
  /\ promise' = [n \in Names |-> IF n \in op.names THEN outcome ELSE promise[n]]

Fail == Answer("unknown")

LogRecords(operation, labels) ==
  /\ wal' = wal \o Records(operation, labels)
  /\ walCount' = walCount + Len(labels)
-------------------------------------------------------------------------------
(* addVectors.                                                             *)

\* getDeletedCount() > 0 selects create_ids_batch<true>.
BeginAdd(t, objs) ==
  /\ LookUp(NamesIn(objs), mem.del # 0)
  /\ Begin([NoOp EXCEPT !.kind = "add", !.stage = "ids", !.thread = t, !.objs = objs,
                        !.names = {objs[i].name : i \in DOMAIN objs}])
  /\ UNCHANGED <<stores, log, graphs, rest>>

AddTakesDeleted ==
  /\ At("add", "ids")
  /\ TakeDeleted
  /\ UNCHANGED <<stores, log, graphs, rest, op, promise>>

AddTakesFresh ==
  /\ At("add", "ids")
  /\ TakeFresh
  /\ GoTo("logIds")
  /\ UNCHANGED <<stores, log, graphs, rest>>

\* create_ids_batch logs the ids it took, reused ones first, before it writes
\* the mapping.
AddLogsIds ==
  /\ At("add", "logIds")
  /\ LogRecords("ADD", batch.alloc)
  /\ GoTo("map")
  /\ UNCHANGED <<ids, stores, graphs, rest>>

AddWritesMappings ==
  /\ At("add", "map")
  /\ WriteMappings
  /\ op' = [op EXCEPT !.stage = "vectors", !.ids = BatchIds, !.isNew = BatchIsNew]
  /\ UNCHANGED <<stores, log, graphs, rest, promise>>

BatchLabels == {op.ids[i] : i \in DOMAIN op.ids}

\* The object stored at l when the batch is written in order.
LastFor(l) == op.objs[LastOf({i \in DOMAIN op.ids : op.ids[i] = l})]

\* Mutant: every position of the batch gets the vector of the first.
AddStoresFirstVector ==
  /\ At("add", "vectors")
  /\ vecWriter = NoThread
  /\ \A i \in DOMAIN op.objs : op.objs[i].vec \notin BadVecs
  /\ vec' = [l \in Labels |-> IF l \in BatchLabels THEN op.objs[1].vec ELSE vec[l]]
  /\ GoTo("meta")
  /\ UNCHANGED <<ids, meta, filt, log, graphs, rest>>

\* VectorStore::store_vectors_batch: one write transaction, for which MDBX lets
\* other threads wait and refuses the thread that already has one open.
AddStoresVectors ==
  /\ At("add", "vectors")
  /\ vecWriter = NoThread
  /\ \A i \in DOMAIN op.objs : op.objs[i].vec \notin BadVecs
  /\ vec' = [l \in Labels |-> IF l \in BatchLabels THEN LastFor(l).vec ELSE vec[l]]
  /\ GoTo("meta")
  /\ UNCHANGED <<ids, meta, filt, log, graphs, rest>>

\* "Vector byte size mismatch" is thrown out of the transaction, which is
\* neither committed nor aborted: it stays open.
AddFindsBadVector ==
  /\ At("add", "vectors")
  /\ vecWriter = NoThread
  /\ \E i \in DOMAIN op.objs : op.objs[i].vec \in BadVecs
  /\ vecWriter' = op.thread
  /\ Fail
  /\ UNCHANGED <<ids, stores, log, graphs, crashes>>

AddFindsOwnTransaction ==
  /\ At("add", "vectors")
  /\ vecWriter = op.thread
  /\ Fail
  /\ UNCHANGED <<ids, stores, log, graphs, rest>>

\* MetaStore::store_meta_batch.
AddStoresMeta ==
  /\ At("add", "meta")
  /\ meta' = [l \in Labels |-> IF l \in BatchLabels
                THEN [name |-> LastFor(l).name, tag |-> LastFor(l).tag] ELSE meta[l]]
  /\ GoTo("filters")
  /\ UNCHANGED <<ids, vec, filt, log, graphs, rest>>

\* add_filters_from_json_batch adds the ids to the bitmaps of their filters; it
\* removes none from the bitmap of an earlier filter.
AddStoresFilters ==
  /\ At("add", "filters")
  /\ filt' = [t \in Tags |->
                filt[t] \cup {op.ids[i] : i \in {j \in DOMAIN op.ids : op.objs[j].tag = t}}]
  /\ GoTo("logOps")
  /\ UNCHANGED <<ids, vec, meta, log, graphs, rest>>

\* logInsertsAndUpdates.
AddLogsOps ==
  /\ At("add", "logOps")
  /\ wal' = wal \o [i \in DOMAIN op.ids |->
                      [op |-> IF op.isNew[i] THEN "ADD" ELSE "UPDATE", id |-> op.ids[i]]]
  /\ walCount' = walCount + Len(op.ids)
  /\ GoTo("graph")
  /\ UNCHANGED <<ids, stores, graphs, rest>>

\* The parallel addPoint calls, and markUpdated.  Positions with the same label
\* are inserted by different threads: any of them can be the last.
AddToGraph ==
  /\ At("add", "graph")
  /\ \E last \in [BatchLabels -> DOMAIN op.ids] :
       /\ \A l \in BatchLabels : op.ids[last[l]] = l
       /\ LET new == {op.ids[i] : i \in {j \in DOMAIN op.ids : op.isNew[j]}}
          IN  mem' = AddPoints(mem, new, BatchLabels \ new,
                               [l \in BatchLabels |-> op.objs[last[l]].vec])
  /\ updated' = TRUE
  /\ GoTo("saveCheck")
  /\ UNCHANGED <<ids, stores, log, disk, loaded, elementCount, rest>>

-------------------------------------------------------------------------------
(* deleteVector, deleteVectorsByFilter: deleteVectorsByIds.                *)

BeginDelete(labels, names) ==
  /\ Begin([NoOp EXCEPT !.kind = "delete", !.stage = "unmap", !.ids = labels,
                        !.names = names])
  /\ UNCHANGED <<ids, stores, log, graphs, rest>>

\* A string id without an id is answered with "not found" and changes nothing.
DeleteByName(n) ==
  /\ idmap[n] # NoId
  /\ BeginDelete(<<idmap[n]>>, {n})

\* A bitmap yields its ids in ascending order.
DeleteByFilter(t) ==
  \E labels \in [1..Cardinality(filt[t]) -> filt[t]] :
    /\ \A i, j \in DOMAIN labels : i < j => labels[i] < labels[j]
    /\ BeginDelete(labels, {meta[l].name : l \in {k \in filt[t] : HasMeta(k)}})

MoreToDelete == op.pos <= Len(op.ids)

Deleted == op.ids[op.pos]

\* get_meta throws for an id that was never stored, and ends the request.
DeleteFindsNoMeta ==
  /\ At("delete", "unmap") /\ MoreToDelete
  /\ ~HasMeta(Deleted)
  /\ Fail
  /\ UNCHANGED <<ids, stores, log, graphs, rest>>

\* Mutant: the id is not put on the free list.
DeleteUnmapsWithoutFreeing ==
  /\ At("delete", "unmap") /\ MoreToDelete
  /\ HasMeta(Deleted)
  /\ idmap' = [idmap EXCEPT ![meta[Deleted].name] = NoId]
  /\ op' = IF idmap[meta[Deleted].name] = Deleted
           THEN [op EXCEPT !.stage = "mark"] ELSE [op EXCEPT !.pos = @ + 1]
  /\ UNCHANGED <<deletedIds, nextId, batch, stores, log, graphs, rest, promise>>

\* The mapping of the string id found in the metadata is dropped; when it led
\* to another id, the deletion skips the rest of its work for this one.
DeleteUnmaps ==
  /\ At("delete", "unmap") /\ MoreToDelete
  /\ HasMeta(Deleted)
  /\ DeletePoint(meta[Deleted].name)
  /\ op' = IF idmap[meta[Deleted].name] = Deleted
           THEN [op EXCEPT !.stage = "mark"] ELSE [op EXCEPT !.pos = @ + 1]
  /\ UNCHANGED <<stores, log, graphs, rest, promise>>

\* deleteFilter, then markDelete, which throws for an id the graph lacks.
DeleteMarks ==
  /\ At("delete", "mark")
  /\ filt' = [t \in Tags |-> IF t = meta[Deleted].tag THEN filt[t] \ {Deleted} ELSE filt[t]]
  /\ IF CanMark(mem, Deleted)
     THEN /\ mem' = MarkDelete(mem, Deleted)
          /\ op' = [op EXCEPT !.stage = "unmap", !.pos = @ + 1]
          /\ UNCHANGED promise
     ELSE Fail /\ UNCHANGED mem
  /\ UNCHANGED <<ids, vec, meta, log, disk, updated, loaded, elementCount, rest>>

\* Mutant: the deletions are not logged.
DeleteLogsNothing ==
  /\ At("delete", "unmap") /\ ~MoreToDelete
  /\ updated' = TRUE
  /\ GoTo("saveCheck")
  /\ UNCHANGED <<ids, stores, log, mem, disk, loaded, elementCount, rest>>

\* logDeletions logs every id of the list, and markUpdated.
DeleteLogs ==
  /\ At("delete", "unmap") /\ ~MoreToDelete
  /\ LogRecords("DELETE", op.ids)
  /\ updated' = TRUE
  /\ GoTo("saveCheck")
  /\ UNCHANGED <<ids, stores, mem, disk, loaded, elementCount, rest>>

-------------------------------------------------------------------------------
(* updateFilters, for a request with one update.                           *)

\* An unknown string id is skipped, and get_meta throws when the metadata is
\* missing: neither changes anything.
BeginRetag(n, t) ==
  /\ idmap[n] # NoId
  /\ HasMeta(idmap[n])
  /\ Begin([NoOp EXCEPT !.kind = "retag", !.stage = "untag", !.ids = <<idmap[n]>>,
                        !.tag = t])
  /\ UNCHANGED <<ids, stores, log, graphs, rest>>

RetagRemoves ==
  /\ At("retag", "untag")
  /\ filt' = [t \in Tags |-> IF t = meta[Deleted].tag THEN filt[t] \ {Deleted} ELSE filt[t]]
  /\ GoTo("meta")
  /\ UNCHANGED <<ids, vec, meta, log, graphs, rest>>

RetagStoresMeta ==
  /\ At("retag", "meta")
  /\ meta' = [meta EXCEPT ![Deleted].tag = op.tag]
  /\ GoTo("tag")
  /\ UNCHANGED <<ids, vec, filt, log, graphs, rest>>

RetagAdds ==
  /\ At("retag", "tag")
  /\ filt' = [t \in Tags |-> IF t = op.tag THEN filt[t] \cup {Deleted} ELSE filt[t]]
  /\ updated' = TRUE
  /\ Answer("unknown")
  /\ UNCHANGED <<ids, vec, meta, log, mem, disk, loaded, elementCount, rest>>

-------------------------------------------------------------------------------
(* saveIndexInternal, called by saveIndex, by addVectors and the deletions *)
(* when the WAL is long, and by recoverFromWAL.                            *)

\* What a successful request answers of its string ids.
Outcome == IF op.kind = "add" THEN "present"
           ELSE IF op.kind = "delete" THEN "absent" ELSE "unknown"

\* getEntryCount() >= save_every_n_updates.
SaveWhenLong ==
  /\ op.stage = "saveCheck"
  /\ walCount >= SaveEvery
  /\ GoTo("image")
  /\ UNCHANGED <<ids, stores, log, graphs, rest>>

AnswerWhenShort ==
  /\ op.stage = "saveCheck"
  /\ walCount < SaveEvery
  /\ Answer(Outcome)
  /\ UNCHANGED <<ids, stores, log, graphs, rest>>

BeginSave ==
  /\ Idle
  /\ updated
  /\ op' = [NoOp EXCEPT !.kind = "save", !.stage = "image"]
  /\ UNCHANGED <<ids, stores, log, graphs, rest, promise>>

\* Mutant: the image is not renamed over the old one.
SaveImageUnderTempName ==
  /\ op.stage = "image"
  /\ GoTo("clear")
  /\ UNCHANGED <<ids, stores, log, graphs, rest>>

\* The image is written beside the old one and renamed over it.
SaveImage ==
  /\ op.stage = "image"
  /\ disk' = mem
  /\ GoTo("clear")
  /\ UNCHANGED <<ids, stores, log, mem, updated, loaded, elementCount, rest>>

SaveClearsWal ==
  /\ op.stage = "clear"
  /\ wal' = <<>>
  /\ walCount' = 0
  /\ GoTo("count")
  /\ UNCHANGED <<ids, stores, graphs, rest>>

\* Mutant: the save starts over as long as the entry is marked updated.
SaveRepeats ==
  /\ op.stage = "count"
  /\ elementCount' = ElementsCount(mem)
  /\ GoTo("image")
  /\ UNCHANGED <<ids, stores, log, mem, disk, updated, loaded, rest>>

SaveCounts ==
  /\ op.stage = "count"
  /\ elementCount' = ElementsCount(mem)
  /\ updated' = FALSE
  /\ Answer(Outcome)
  /\ UNCHANGED <<ids, stores, log, mem, disk, loaded, rest>>

-------------------------------------------------------------------------------
(* evictIfNeeded, loadIndex with recoverFromWAL, and the process.          *)

\* Mutant: a dirty entry is evicted too.
EvictDirty ==
  /\ Idle
  /\ vecWriter = NoThread
  /\ loaded' = FALSE
  /\ mem' = EmptyGraph
  /\ updated' = FALSE
  /\ UNCHANGED <<ids, stores, log, disk, elementCount, rest, op, promise>>

\* Only a clean entry is evicted.  The eviction of an entry in use is not
\* modelled here.
Evict ==
  /\ Idle
  /\ ~updated
  /\ vecWriter = NoThread
  /\ loaded' = FALSE
  /\ mem' = EmptyGraph
  /\ UNCHANGED <<ids, stores, log, disk, updated, elementCount, rest, op, promise>>

\* One iteration of recoverFromWAL's loop.  readEntries() never returns an ADD, so
\* that branch, and reclaim_failed_ids after the loop, are never taken.
Recover(g, entry) ==
  IF entry.op = "UPDATE" /\ vec[entry.id] # NoVec
  THEN AddPoints(g, {}, {entry.id}, vec)
  ELSE IF entry.op = "DELETE" /\ CanMark(g, entry.id)
  THEN MarkDelete(g, entry.id)
  ELSE g

\* The entry is published before the recovery.  When readEntries() throws, the
\* entry stays, unrecovered, and the WAL keeps its records.
Load ==
  /\ ~loaded
  /\ loaded' = TRUE
  /\ mem' = disk
  /\ op' = IF walCount = 0 \/ ReadThrows(wal) THEN op
           ELSE [NoOp EXCEPT !.kind = "load", !.stage = "recover"]
  /\ UNCHANGED <<ids, stores, log, disk, updated, elementCount, rest, promise>>

RecoverEntry ==
  /\ At("load", "recover")
  /\ op.pos <= Len(ReadEntries(wal))
  /\ mem' = Recover(mem, ReadEntries(wal)[op.pos])
  /\ op' = [op EXCEPT !.pos = @ + 1]
  /\ UNCHANGED <<ids, stores, log, disk, updated, loaded, elementCount, rest, promise>>

\* markUpdated, and the save.
RecoverEnds ==
  /\ At("load", "recover")
  /\ op.pos > Len(ReadEntries(wal))
  /\ updated' = TRUE
  /\ GoTo("image")
  /\ UNCHANGED <<ids, stores, log, mem, disk, loaded, elementCount, rest>>

\* Committed transactions and flushed log records survive; the next process
\* reopens the WAL and has no entry loaded.
Crash ==
  /\ crashes < MaxCrashes
  /\ crashes' = crashes + 1
  /\ AbandonBatch
  /\ loaded' = FALSE /\ mem' = EmptyGraph /\ updated' = FALSE
  /\ walCount' = CountOnOpen(wal)
  /\ vecWriter' = NoThread
  /\ Fail
  /\ UNCHANGED <<stores, wal, disk, elementCount>>

-------------------------------------------------------------------------------
Init ==
  /\ IdInit
  /\ vec = [l \in Labels |-> NoVec]
  /\ meta = [l \in Labels |-> NoMeta]
  /\ filt = [t \in Tags |-> {}]
  /\ vecWriter = NoThread
  /\ wal = <<>> /\ walCount = 0
  /\ mem = EmptyGraph /\ disk = EmptyGraph
  /\ updated = FALSE /\ loaded = TRUE /\ elementCount = 0
  /\ op = NoOp
  /\ promise = [n \in Names |-> "unknown"]
  /\ crashes = 0

\* The steps of a request under way.
Step ==
  \/ AddTakesDeleted \/ AddTakesFresh \/ AddLogsIds \/ AddWritesMappings
  \/ AddStoresVectors \/ AddFindsBadVector \/ AddFindsOwnTransaction
  \/ AddStoresMeta \/ AddStoresFilters \/ AddLogsOps \/ AddToGraph
  \/ DeleteFindsNoMeta \/ DeleteUnmaps \/ DeleteMarks \/ DeleteLogs
  \/ RetagRemoves \/ RetagStoresMeta \/ RetagAdds
  \/ RecoverEntry \/ RecoverEnds
  \/ SaveWhenLong \/ AnswerWhenShort \/ SaveImage \/ SaveClearsWal \/ SaveCounts

Next ==
  \/ \E t \in Threads, objs \in Batches : BeginAdd(t, objs)
  \/ \E n \in Names : DeleteByName(n)
  \/ \E t \in Tags : DeleteByFilter(t)
  \/ \E n \in Names, t \in UpdateTags : BeginRetag(n, t)
  \/ BeginSave \/ Evict \/ Load
  \/ Step
  \/ Crash

Spec == Init /\ [][Next]_vars

\* A server thread that holds operation_mutex runs on; nothing obliges clients
\* to send requests, the process to die or an entry to be evicted.
FairSpec == Spec /\ WF_vars(Step)
-------------------------------------------------------------------------------
(* What the index promises.                                                *)

\* The graph a reader sees, or would see after a load from the saved image.
Image == IF loaded THEN mem ELSE disk

OwnedLabels == {idmap[n] : n \in Names} \ {NoId}

\* getVector and searchKNN both find n: it has an id, the graph returns that id,
\* and the metadata of the id names n.
Findable(n) ==
  /\ idmap[n] # NoId
  /\ Image.mark[idmap[n]] = "live"
  /\ meta[idmap[n]].name = n

\* searchKNN can return n: some live label has it as its name.
Searchable(n) == \E l \in LabelsMarked(Image, "live") : meta[l].name = n

\* Types of the index's state.
IndexTypeOK ==
  /\ IdTypeOK
  /\ vec \in [Labels -> Vecs \cup {NoVec}]
  /\ meta \in [Labels -> [name : Names \cup {NoName}, tag : Tags \cup {NoTag}]]
  /\ filt \in [Tags -> SUBSET Labels]
  /\ vecWriter \in Threads \cup {NoThread}
  /\ wal \in Seq(WalRecords)
  /\ walCount \in Nat
  /\ mem \in Graphs /\ disk \in Graphs
  /\ updated \in BOOLEAN /\ loaded \in BOOLEAN
  /\ elementCount \in Nat
  /\ op \in Ops
  /\ promise \in [Names -> {"unknown", "present", "absent"}]
  /\ crashes \in 0..MaxCrashes

\* An object whose insert was acknowledged, and that no later request touched,
\* is found by id and by search, whatever was saved, evicted and loaded since.
InsertsSurvive ==
  Idle => \A n \in Names : promise[n] = "present" => Findable(n)

\* An object whose deletion was acknowledged is found neither by id nor by
\* search.
DeletesSurvive ==
  Idle =>
    \A n \in Names : promise[n] = "absent" => idmap[n] = NoId /\ ~Searchable(n)

\* What was promised is kept.
PromisesKept == InsertsSurvive /\ DeletesSurvive

\* Between requests the mapper, the graph and the metadata describe the same
\* set of objects: the live labels are the ids of the mapped names, and each
\* carries its own name.
ViewsAgree ==
  Idle => /\ LabelsMarked(mem, "live") = OwnedLabels
          /\ \A n \in Names : idmap[n] # NoId => meta[idmap[n]].name = n

\* docs/filter.md: the bitmap of a value holds all ids that have this value,
\* and, since searches trust it, no other.
FilterExact ==
  Idle => \A t \in Tags : filt[t] = {l \in OwnedLabels : meta[l].tag = t}

\* Whatever the graph in memory has that the saved image has not is in the log:
\* the last record of such a label is the operation that brought it there.
WriteAheadCover ==
  Idle => \A l \in Labels :
    <<mem.mark[l], mem.at[l]>> # <<disk.mark[l], disk.at[l]>> =>
      LET R == {i \in DOMAIN wal : wal[i].id = l}
      IN  /\ R # {}
          /\ wal[LastOf(R)].op \in IF mem.mark[l] = "deleted" THEN {"DELETE"}
                                                           ELSE {"ADD", "UPDATE"}

\* The graph a whole recovery makes of g (a fold, as a recursive function).
Recovered(g, entries) ==
  LET after[i \in 0..Len(entries)] ==
        IF i = 0 THEN g ELSE Recover(after[i - 1], entries[i])
  IN  after[Len(entries)]

\* Were the process to die now, recovery would rebuild exactly the graph in
\* memory, as long as nothing was inserted since the last save.
RecoveryExact ==
  Idle /\ AddsIn(wal) = {} => Recovered(disk, ReadEntries(wal)) = mem

\* A clean entry may be evicted, and its unsaved state forgotten, at any time:
\* a clean entry has none, and no log to replay.
CleanIsSaved == Idle /\ ~updated => mem = disk /\ wal = <<>>

\* total_elements of a clean index is the number of its string ids.
CountMatches ==
  Idle /\ ~updated => elementCount = Cardinality(OwnedLabels)

\* A label that addPoint is told is new is not in the graph, which would then
\* hold it twice; even after a crash lost the graph but not the mapping.
FreshLabelsAbsent ==
  At("add", "graph") =>
    \A i \in DOMAIN op.ids : op.isNew[i] => mem.mark[op.ids[i]] = "absent"

\* No label in either graph, in the log or in a bitmap will be handed out as a
\* fresh id again.
LabelsBelowNext ==
  /\ \A l \in Labels : "absent" # mem.mark[l] \/ "absent" # disk.mark[l] => l < nextId
  /\ \A i \in DOMAIN wal : wal[i].id < nextId
  /\ \A t \in Tags : \A l \in filt[t] : l < nextId

\* deletedElementsCount_ counts at least the marked labels: unmarking never
\* takes it below zero.
DeletedCounted ==
  mem.del >= Cardinality(LabelsMarked(mem, "deleted"))

\* hnswalg.h, "Get active elements count": the count is that of the live labels.
ActiveCount ==
  Idle => ElementsCount(mem) = Cardinality(LabelsMarked(mem, "live"))

\* The views of an index agree: mapper, graph, metadata, bitmaps and counts.
Agreement == ViewsAgree /\ FilterExact /\ CountMatches /\ ActiveCount

\* The process may die or the entry be evicted between any two requests: the log covers what
\* the image lacks, recovery rebuilds the graph, and a clean entry has nothing unsaved.
Recoverable == WriteAheadCover /\ RecoveryExact /\ CleanIsSaved

\* The log is emptied only when everything it records is in the saved image.
LogClearedWhenSaved ==
  [][wal # <<>> /\ wal' = <<>> => disk = mem]_vars

\* Every request is answered, unless the process dies.
OpsComplete == op.kind # "none" ~> op.kind = "none"

-------------------------------------------------------------------------------
(* The inductive invariant: what the safety properties above rest on.      *)

\* The ids a running batch may still take lie within the bound.
IdsFit ==
  /\ nextId <= MaxId + 1
  /\ batch.stage = "lookedUp" => nextId + Needed <= MaxId + 1
  /\ batch.stage = "taken" => nextId + (Needed - Len(batch.alloc)) <= MaxId + 1

\* create_ids_batch runs only inside an insert, and on its string ids.
BatchIsOps ==
  batch.stage # "none" =>
    /\ op.kind = "add" /\ op.stage \in {"ids", "logIds", "map"}
    /\ batch.names = NamesIn(op.objs)

WithIds == {"vectors", "meta", "filters", "logOps", "graph"}

\* What an operation remembers fits the stage it has reached.
OpShape ==
  /\ op.kind = "none" => op.stage = "none"
  /\ ~loaded => op.kind = "none"
  /\ op.kind = "add" /\ op.stage \in WithIds =>
       Len(op.ids) = Len(op.objs) /\ Len(op.isNew) = Len(op.objs)
  /\ op.kind = "delete" /\ op.stage = "mark" => op.pos <= Len(op.ids)
  /\ op.kind = "retag" => Len(op.ids) = 1 /\ op.pos = 1

\* A save clears the log only after it wrote the graph, unchanged since.
SavedBeforeCleared == op.stage = "clear" => disk = mem

\* LabelsBelowNext, with the labels an operation is about to store.
OpLabelsBelowNext == \A i \in DOMAIN op.ids : op.ids[i] < nextId

\* DeletedCounted, of the saved graph too.
SavedDeletedCounted ==
  disk.del >= Cardinality(LabelsMarked(disk, "deleted"))

\* FreshLabelsAbsent, from the moment the ids are taken.
TakenFreshAbsent ==
  /\ batch.stage = "taken" => Len(batch.alloc) <= batch.reused
  /\ \A j \in DOMAIN batch.alloc :
       j > batch.reused => mem.mark[batch.alloc[j]] = "absent"
  /\ op.kind = "add" /\ op.stage \in WithIds =>
       \A i \in DOMAIN op.ids : op.isNew[i] => mem.mark[op.ids[i]] = "absent"

\* FreshLabelsAbsent, for one, is not inductive: an insert learns which ids are
\* new several transactions before it tells the graph.
IndexInv ==
  /\ IdInv /\ IndexTypeOK /\ IdsFit /\ BatchIsOps /\ OpShape
  /\ SavedBeforeCleared
  /\ LabelsBelowNext /\ OpLabelsBelowNext
  /\ DeletedCounted /\ SavedDeletedCounted
  /\ TakenFreshAbsent

-------------------------------------------------------------------------------
(* The index implements the map of VectorMap.                              *)

\* What a reader gets for n: the vector of its id, when the graph has it live.
StoredVec(n) ==
  IF idmap[n] # NoId /\ Image.mark[idmap[n]] = "live" THEN vec[idmap[n]] ELSE NoVec

Requested ==
  CASE op.kind = "add" -> [n \in op.names |->
         op.objs[LastOf({i \in DOMAIN op.objs : op.objs[i].name = n})].vec]
    [] op.kind = "delete" -> [n \in op.names |-> NoVec]
    [] OTHER -> [n \in {} |-> NoVec]

Map == INSTANCE VectorMap
  WITH Keys <- Names, Values <- Vecs, Absent <- NoVec,
       store <- [n \in Names |-> StoredVec(n)], request <- Requested

\* The index is a map from string ids to vectors: an insert, upsert or deletion
\* takes effect once, before its answer, and saving, evicting, loading and
\* updating filters change no object.
ImplementsMap == Map!MapSpec

===============================================================================
