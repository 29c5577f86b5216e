------------------------------ MODULE IndexCache ------------------------------
(***************************************************************************)
(* The cache of indices of IndexManager (core/ndd.hpp): looking an index up*)
(* without a lock, loading it under indices_mutex_, recovery of an entry   *)
(* other threads can see already, eviction, creation, deletion, restoring  *)
(* a backup, autosave, and the writes and reads that use an entry          *)
(* meanwhile.                                                              *)
(*                                                                         *)
(* A write is known by its request: it is in the log, in a graph or in an  *)
(* image.  Its record is one that recovery replays (an update or a         *)
(* deletion; IndexStore is about the others).  Directories and entries of  *)
(* an index are numbered in the order they are made; 0 is none.            *)
(*                                                                         *)
(* A request that uses an entry after it was erased may do anything at all:*)
(* the model stops there ("undefined"), and what it states holds until     *)
(* then.  That an unordered_map is read while another thread changes it,   *)
(* and that a restore changes map and list without the lock, is left out:  *)
(* a lookup finds the entry or does not, a change is one step.             *)
(***************************************************************************)
EXTENDS Naturals, SequencesExt

CONSTANTS
  Requests,    \* writes, reads, saves, creations and deletions of indices
  NoRequest,
  Indexes,
  Asks,        \* what may be asked: each a request, a kind and an index
  Existing,    \* the indices that exist when the server starts
  Logged,      \* the writes each index's log holds then
  Backed,      \* the writes the backup holds
  Size,        \* of each index in memory: getApproxSizeGB
  MaxMemory,   \* settings::MAX_MEMORY_GB
  SaveEvery,   \* save_every_n_updates
  MaxEntries   \* bound on entries and directories of one index

Kinds == {"write", "read", "save", "create", "delete", "restore"}

Writes == Requests \cup Backed \cup UNION {Logged[x] : x \in Indexes}

ASSUME IndexCacheAssumption ==
  /\ NoRequest \notin Requests
  /\ Asks \subseteq Requests \X Kinds \X Indexes
  /\ Existing \subseteq Indexes
  /\ Backed \cap Requests = {}
  /\ \A x \in Indexes : Logged[x] \cap Requests = {} /\ Size[x] \in Nat
  /\ MaxMemory \in Nat /\ SaveEvery \in Nat /\ MaxEntries \in Nat \ {0}

VARIABLES
  pc, req,        \* each request: its next step; its kind and index
  ref,            \* the entry it has a reference to
  records,        \* what its recovery has read of the log
  total,          \* evictIfNeeded: total_size
  opened,         \* the directory in which a creation has opened the databases
  indices,        \* indices_: the entry of an index
  list,           \* indices_list_, last used first
  mapMutex,       \* who holds indices_mutex_
  entry,          \* the entries: graph, updated, who holds operation_mutex
  made,           \* how many entries of an index have been made
  dir, dirs,      \* an index's directory; how many it has had
  image, log,     \* the image and the log, by directory
  wal,            \* wal_logs_: the directory whose log is open; entry_count_
  meta,           \* the indices with metadata
  acked,          \* history: the acknowledged writes, by directory
  undefined       \* history: an erased entry was used

own     == <<req, ref, records, total, opened>>
cached  == <<indices, list, entry, made>>
disk    == <<dir, dirs, image, log, wal, meta>>
world   == <<cached, mapMutex, disk, acked, undefined>>
vars    == <<pc, own, world>>

Numbers == 1..MaxEntries

NoImage == [there |-> FALSE, graph |-> {}]

NoWal == [dir |-> 0, count |-> 0]

Fresh(graph, updated) == [graph |-> graph, updated |-> updated, holder |-> NoRequest]

Index(r) == req[r].index

\* The reference a request has is to an entry that is still in indices_.
Live(r) == ref[r] # 0 /\ indices[Index(r)] = ref[r]

Entry(r) == entry[Index(r)][ref[r]]

Goto(r, stage) == pc' = [pc EXCEPT ![r] = stage]

At(r, stage) == pc[r] = stage /\ ~undefined

\* At a stage that uses the reference, which is good.
Using(r, stage) == At(r, stage) /\ Live(r)

SetEntry(r, e) == entry' = [entry EXCEPT ![Index(r)][ref[r]] = e]
-------------------------------------------------------------------------------
(* getIndexEntry.                                                          *)

\* What a request does with the entry.
Work(kind) == IF kind = "read" THEN "use" ELSE "lockOp"

\* Without a lock.
Find(r) ==
  LET e == indices[Index(r)] IN
  /\ At(r, "find")
  /\ Goto(r, IF e = 0 THEN "lockMap" ELSE Work(req[r].kind))
  /\ ref' = [ref EXCEPT ![r] = e]
  /\ UNCHANGED <<req, records, total, opened, world>>

LockMap(r) ==
  /\ At(r, "lockMap") /\ mapMutex = NoRequest
  /\ mapMutex' = r
  /\ Goto(r, IF indices[Index(r)] = 0 THEN "load" ELSE "fetch")
  /\ UNCHANGED <<own, cached, disk, acked, undefined>>

\* The files of a saved index are there.
Saved(x) == dir[x] # 0 /\ image[x][dir[x]].there

\* A creation has the databases open.
OpenedByOther(r) ==
  \E q \in Requests \ {r} :
    /\ pc[q] = "publish" /\ Index(q) = Index(r)
    /\ opened[q] = dir[Index(r)] /\ opened[q] # 0

\* MDBX does not open a database twice in one process: a restore may have loaded the index, a
\* creation may have its databases open.
Loadable(r) == Saved(Index(r)) /\ indices[Index(r)] = 0 /\ ~OpenedByOther(r)

LoadFails(r) ==
  /\ At(r, "load") /\ ~Loadable(r)
  /\ mapMutex' = NoRequest
  /\ Goto(r, "done")
  /\ UNCHANGED <<own, cached, disk, acked, undefined>>

\* An index put into indices_ and at the front of the list.
Publish(x, e) ==
  /\ made[x] < MaxEntries
  /\ made' = [made EXCEPT ![x] = @ + 1]
  /\ indices' = [indices EXCEPT ![x] = made[x] + 1]
  /\ entry' = [entry EXCEPT ![x][made[x] + 1] = e]
  /\ list' = <<x>> \o list

\* The entry is there for others from here on; its recovery follows.
Load(r) ==
  LET x == Index(r) IN
  /\ At(r, "load") /\ Loadable(r)
  /\ Publish(x, Fresh(image[x][dir[x]].graph, FALSE))
  /\ ref' = [ref EXCEPT ![r] = made[x] + 1]
  /\ Goto(r, "recover")
  /\ UNCHANGED <<req, records, total, opened, mapMutex, disk, acked, undefined>>

\* getOrCreateWAL: what was opened once stays open; a log found is counted as one record.
Wal(x) ==
  IF wal[x].dir # 0 THEN wal[x]
  ELSE [dir |-> dir[x], count |-> IF log[x][dir[x]] = {} THEN 0 ELSE 1]

\* The records found at the directory's path, if it was not moved away.
LogAt(x) == IF dir[x] = 0 THEN {} ELSE log[x][dir[x]]

CanOpenLog(x) == wal[x].dir # 0 \/ dir[x] # 0

\* What follows a recovery: a restore is answered.
Recovered(r) == IF req[r].kind = "restore" THEN "answer" ELSE "evict"

\* Mutant: what the log holds is not replayed.
ReadLogNever(r) ==
  /\ Using(r, "recover") /\ CanOpenLog(Index(r))
  /\ wal' = [wal EXCEPT ![Index(r)] = Wal(Index(r))]
  /\ Goto(r, Recovered(r))
  /\ UNCHANGED <<own, cached, mapMutex, dir, dirs, image, log, meta, acked, undefined>>

\* Mutant: the log is cleared once it was read.
ReadLogClears(r) ==
  LET x == Index(r) IN
  /\ Using(r, "recover") /\ CanOpenLog(Index(r))
  /\ wal' = [wal EXCEPT ![x] = [Wal(x) EXCEPT !.count = 0]]
  /\ log' = IF dir[x] = 0 THEN log ELSE [log EXCEPT ![x][dir[x]] = {}]
  /\ IF Wal(x).count = 0
     THEN Goto(r, Recovered(r)) /\ UNCHANGED records
     ELSE /\ Goto(r, "replay")
          /\ records' = [records EXCEPT ![r] = LogAt(x)]
  /\ UNCHANGED <<req, ref, total, opened, cached, mapMutex, dir, dirs, image, meta,
                 acked, undefined>>

ReadLog(r) ==
  LET x == Index(r) IN
  /\ Using(r, "recover") /\ CanOpenLog(x)
  /\ wal' = [wal EXCEPT ![x] = Wal(x)]
  /\ IF Wal(x).count = 0
     THEN Goto(r, Recovered(r)) /\ UNCHANGED records
     ELSE /\ Goto(r, "replay")
          /\ records' = [records EXCEPT ![r] = LogAt(x)]
  /\ UNCHANGED <<req, ref, total, opened, cached, mapMutex, dir, dirs, image, log, meta,
                 acked, undefined>>

\* Only a restore can find its directory moved away: it has no lock.
RecoveryFails(r) ==
  /\ Using(r, "recover") /\ ~CanOpenLog(Index(r))
  /\ Goto(r, "done")
  /\ UNCHANGED <<own, world>>

\* Without operation_mutex; markUpdated follows, and the save.
Replay(r) ==
  /\ Using(r, "replay")
  /\ SetEntry(r, [Entry(r) EXCEPT !.graph = @ \cup records[r], !.updated = TRUE])
  /\ Goto(r, "saveImage")
  /\ UNCHANGED <<own, indices, list, made, mapMutex, disk, acked, undefined>>

Fetch(r) ==
  LET e == indices[Index(r)] IN
  /\ At(r, "fetch")
  /\ mapMutex' = NoRequest
  /\ ref' = [ref EXCEPT ![r] = e]
  /\ Goto(r, IF e = 0 THEN "done" ELSE Work(req[r].kind))
  /\ UNCHANGED <<req, records, total, opened, cached, disk, acked, undefined>>
-------------------------------------------------------------------------------
(* evictIfNeeded, under indices_mutex_; for a creation before the databases*)
(* are opened, for a load after the recovery.                              *)

Loaded == {x \in Indexes : indices[x] # 0}

\* What these indices hold of memory.
SizeOf(xs) == SumFunction(Restrict(Size, xs))

AfterEviction(r) ==
  IF req[r].kind = "create" /\ opened[r] = 0
  THEN Goto(r, "open") /\ mapMutex' = NoRequest
  ELSE Goto(r, "fetch") /\ UNCHANGED mapMutex

Evict(r) ==
  LET sum == SizeOf(Loaded) IN
  /\ At(r, "evict")
  /\ IF sum > MaxMemory
     THEN /\ total' = [total EXCEPT ![r] = sum]
          /\ Goto(r, "evicting") /\ UNCHANGED mapMutex
     ELSE AfterEviction(r) /\ UNCHANGED total
  /\ UNCHANGED <<req, ref, records, opened, cached, disk, acked, undefined>>

\* More than 80% in use, and not the last index.
StillEvicting(r) == 10 * total[r] > 8 * MaxMemory /\ Len(list) > 1

EvictEnds(r) ==
  /\ At(r, "evicting") /\ ~StillEvicting(r)
  /\ AfterEviction(r)
  /\ UNCHANGED <<own, cached, disk, acked, undefined>>

\* Mutant: an index that is not saved is evicted like another.
EvictDirtyToo(r) ==
  LET x == Last(list) IN
  /\ At(r, "evicting") /\ StillEvicting(r)
  /\ list' = Front(list)
  /\ indices' = [indices EXCEPT ![x] = 0]
  /\ total' = [total EXCEPT ![r] = @ - Size[x]]
  /\ UNCHANGED <<pc, req, ref, records, opened, entry, made, mapMutex, disk, acked,
                 undefined>>

\* Mutant: an index that is not saved is left out of the list.
EvictForgetsDirty(r) ==
  LET x == Last(list) IN
  /\ At(r, "evicting") /\ StillEvicting(r)
  /\ list' = Front(list)
  /\ indices' = [indices EXCEPT ![x] = IF entry[x][@].updated THEN @ ELSE 0]
  /\ total' = [total EXCEPT ![r] = @ - Size[x]]
  /\ UNCHANGED <<pc, req, ref, records, opened, entry, made, mapMutex, disk, acked,
                 undefined>>

\* An index that is not saved goes to the front; its size is subtracted all the same.
EvictLast(r) ==
  LET x == Last(list)
      dirty == indices[x] # 0 /\ entry[x][indices[x]].updated IN
  /\ At(r, "evicting") /\ StillEvicting(r)
  /\ list' = IF dirty THEN <<x>> \o Front(list) ELSE Front(list)
  /\ indices' = IF dirty THEN indices ELSE [indices EXCEPT ![x] = 0]
  /\ total' = IF indices[x] = 0 THEN total ELSE [total EXCEPT ![r] = @ - Size[x]]
  /\ UNCHANGED <<pc, req, ref, records, opened, entry, made, mapMutex, disk, acked,
                 undefined>>
-------------------------------------------------------------------------------
(* saveIndexInternal: by a recovery without, by the others with            *)
(* operation_mutex.                                                        *)

AfterSave(r) ==
  Goto(r, IF mapMutex = r \/ req[r].kind = "restore" THEN Recovered(r) ELSE "unlock")

SaveImage(r) ==
  LET x == Index(r) IN
  /\ Using(r, "saveImage")
  /\ Entry(r).updated => dir[x] # 0
  /\ IF ~Entry(r).updated
     THEN AfterSave(r) /\ UNCHANGED image
     ELSE /\ image' = [image EXCEPT ![x][dir[x]] =
                         [there |-> TRUE, graph |-> Entry(r).graph]]
          /\ Goto(r, "saveClear")
  /\ UNCHANGED <<own, cached, mapMutex, dir, dirs, log, wal, meta, acked, undefined>>

\* The directory was moved away: the request fails, its guard is released.
SaveFails(r) ==
  /\ Using(r, "saveImage") /\ Entry(r).updated /\ dir[Index(r)] = 0
  /\ SetEntry(r, [Entry(r) EXCEPT !.holder = IF @ = r THEN NoRequest ELSE @])
  /\ Goto(r, "done")
  /\ UNCHANGED <<own, indices, list, made, mapMutex, disk, acked, undefined>>

\* The log at the directory's path is removed and opened anew.
SaveClear(r) ==
  LET x == Index(r) IN
  /\ Using(r, "saveClear")
  /\ log' = IF dir[x] = 0 THEN log ELSE [log EXCEPT ![x][dir[x]] = {}]
  /\ wal' = [wal EXCEPT ![x] = [dir |-> IF dir[x] = 0 THEN @.dir ELSE dir[x], count |-> 0]]
  /\ Goto(r, "saveDone")
  /\ UNCHANGED <<own, cached, mapMutex, dir, dirs, image, meta, acked, undefined>>

SaveDone(r) ==
  /\ Using(r, "saveDone")
  /\ SetEntry(r, [Entry(r) EXCEPT !.updated = FALSE])
  /\ AfterSave(r)
  /\ UNCHANGED <<own, indices, list, made, mapMutex, disk, acked, undefined>>
-------------------------------------------------------------------------------
(* Writes, reads, and saves.                                               *)

LockOp(r) ==
  /\ Using(r, "lockOp") /\ Entry(r).holder = NoRequest
  /\ SetEntry(r, [Entry(r) EXCEPT !.holder = r])
  /\ Goto(r, IF req[r].kind = "write" THEN "log" ELSE "saveImage")
  /\ UNCHANGED <<own, indices, list, made, mapMutex, disk, acked, undefined>>

\* To whatever log is open for the index.
LogWrite(r) ==
  LET x == Index(r) IN
  /\ Using(r, "log") /\ CanOpenLog(x)
  /\ wal' = [wal EXCEPT ![x] = [Wal(x) EXCEPT !.count = @ + 1]]
  /\ log' = [log EXCEPT ![x][Wal(x).dir] = @ \cup {r}]
  /\ Goto(r, "link")
  /\ UNCHANGED <<own, cached, mapMutex, dir, dirs, image, meta, acked, undefined>>

\* A restore loaded the index, its directory was moved away before the log was opened.
LogFails(r) ==
  /\ Using(r, "log") /\ ~CanOpenLog(Index(r))
  /\ SetEntry(r, [Entry(r) EXCEPT !.holder = NoRequest])
  /\ Goto(r, "done")
  /\ UNCHANGED <<own, indices, list, made, mapMutex, disk, acked, undefined>>

Link(r) ==
  /\ Using(r, "link")
  /\ SetEntry(r, [Entry(r) EXCEPT !.graph = @ \cup {r}])
  /\ Goto(r, "mark")
  /\ UNCHANGED <<own, indices, list, made, mapMutex, disk, acked, undefined>>

\* Mutant: an insert saves by saveIndex, which locks operation_mutex again.
MarkLocksAgain(r) ==
  /\ Using(r, "mark")
  /\ SetEntry(r, [Entry(r) EXCEPT !.updated = TRUE])
  /\ Goto(r, IF wal[Index(r)].count >= SaveEvery THEN "lockOp" ELSE "unlock")
  /\ UNCHANGED <<own, indices, list, made, mapMutex, disk, acked, undefined>>

Mark(r) ==
  /\ Using(r, "mark")
  /\ SetEntry(r, [Entry(r) EXCEPT !.updated = TRUE])
  /\ Goto(r, IF wal[Index(r)].count >= SaveEvery THEN "saveImage" ELSE "unlock")
  /\ UNCHANGED <<own, indices, list, made, mapMutex, disk, acked, undefined>>

Unlock(r) ==
  LET x == Index(r) IN
  /\ Using(r, "unlock")
  /\ SetEntry(r, [Entry(r) EXCEPT !.holder = NoRequest])
  /\ acked' = IF req[r].kind = "write" THEN [acked EXCEPT ![x][dir[x]] = @ \cup {r}]
              ELSE acked
  /\ Goto(r, "done")
  /\ UNCHANGED <<own, indices, list, made, mapMutex, disk, undefined>>

\* A search, getVector, getIndexInfo: no lock.
Read(r) ==
  /\ Using(r, "use")
  /\ Goto(r, "done")
  /\ UNCHANGED <<own, world>>

\* checkAndSaveIndices looks at the flag first; the age it asks for is left out.
Autosave(r) ==
  LET x == Index(r) IN
  /\ At(r, "autosave")
  /\ Goto(r, IF indices[x] # 0 /\ entry[x][indices[x]].updated THEN "find" ELSE "done")
  /\ UNCHANGED <<own, world>>

\* Whatever a request with a dangling reference does next.
UseErased(r) ==
  /\ pc[r] \in {"lockOp", "log", "link", "mark", "unlock", "use", "saveImage", "saveClear",
                "saveDone", "recover", "replay", "answer"}
  /\ ~undefined /\ ~Live(r)
  /\ undefined' = TRUE
  /\ UNCHANGED <<pc, own, cached, mapMutex, disk, acked>>
-------------------------------------------------------------------------------
(* createIndex.                                                            *)

CreateAsks(r) ==
  LET x == Index(r) IN
  /\ At(r, "askMeta")
  /\ Goto(r, IF x \in meta \/ Saved(x) THEN "done" ELSE "lockToEvict")
  /\ UNCHANGED <<own, world>>

LockToEvict(r) ==
  /\ At(r, "lockToEvict") /\ mapMutex = NoRequest
  /\ mapMutex' = r
  /\ Goto(r, "evict")
  /\ UNCHANGED <<own, cached, disk, acked, undefined>>

CreateOpens(r) ==
  LET x == Index(r) IN
  /\ At(r, "open")
  /\ IF indices[x] # 0 \/ OpenedByOther(r)
     THEN Goto(r, "done") /\ UNCHANGED <<opened, dir, dirs, wal>>
     ELSE /\ dir[x] = 0 => dirs[x] < MaxEntries
          /\ dirs' = [dirs EXCEPT ![x] = IF dir[x] # 0 THEN @ ELSE @ + 1]
          /\ dir' = [dir EXCEPT ![x] = IF @ # 0 THEN @ ELSE dirs[x] + 1]
          /\ opened' = [opened EXCEPT ![r] = dir'[x]]
          /\ wal' = [wal EXCEPT ![x] =
                       IF wal[x].dir # 0 THEN @ ELSE [dir |-> dir'[x], count |-> 0]]
          /\ Goto(r, "publish")
  /\ UNCHANGED <<req, ref, records, total, cached, mapMutex, image, log, meta, acked,
                 undefined>>

\* emplace leaves an entry that is there as it is; the list gets the index all the same.
CreatePublishes(r) ==
  LET x == Index(r) IN
  /\ At(r, "publish") /\ mapMutex = NoRequest
  /\ IF indices[x] = 0 THEN Publish(x, Fresh({}, TRUE))
     ELSE /\ entry' = [entry EXCEPT ![x][indices[x]].updated = TRUE]
          /\ list' = <<x>> \o list
          /\ UNCHANGED <<indices, made>>
  /\ Goto(r, "storeMeta")
  /\ UNCHANGED <<own, mapMutex, disk, acked, undefined>>

\* saveIndex follows, which looks the entry up like any other.
CreateStoresMeta(r) ==
  /\ At(r, "storeMeta")
  /\ meta' = meta \cup {Index(r)}
  /\ Goto(r, "find")
  /\ UNCHANGED <<own, cached, mapMutex, dir, dirs, image, log, wal, acked, undefined>>
-------------------------------------------------------------------------------
(* deleteIndex.  The guard of operation_mutex is released after the entry  *)
(* it is in was erased; the model takes that to have no effect.  The log   *)
(* stays open in wal_logs_.                                                *)

LockToErase(r) ==
  /\ At(r, "lockToErase") /\ mapMutex = NoRequest
  /\ mapMutex' = r
  /\ Goto(r, "erase")
  /\ UNCHANGED <<own, cached, disk, acked, undefined>>

Erase(r) ==
  LET x == Index(r) IN
  /\ At(r, "erase")
  /\ indices[x] # 0 => entry[x][indices[x]].holder = NoRequest
  /\ list' = IF indices[x] = 0 THEN list ELSE RemoveFirst(list, x)
  /\ indices' = [indices EXCEPT ![x] = 0]
  /\ Goto(r, "move")
  /\ UNCHANGED <<own, entry, made, mapMutex, disk, acked, undefined>>

Move(r) ==
  LET x == Index(r) IN
  /\ At(r, "move")
  /\ meta' = meta \ {x}
  /\ dir' = [dir EXCEPT ![x] = 0]
  /\ mapMutex' = NoRequest
  /\ Goto(r, "done")
  /\ UNCHANGED <<own, cached, dirs, image, log, wal, acked, undefined>>
-------------------------------------------------------------------------------
(* restoreBackup; loadIndex runs without indices_mutex_, and nothing is    *)
(* evicted for it.                                                         *)

RestoreAsks(r) ==
  /\ At(r, "askRestore")
  /\ Goto(r, IF Index(r) \in meta THEN "done" ELSE "copy")
  /\ UNCHANGED <<own, world>>

\* The directory is made if there is none, files that are there are written over: those
\* of open databases with unknown effect.
CopyBackup(r, whole) ==
  LET x == Index(r) IN
  /\ dir[x] = 0 => dirs[x] < MaxEntries
  /\ dirs' = [dirs EXCEPT ![x] = IF dir[x] # 0 THEN @ ELSE @ + 1]
  /\ dir' = [dir EXCEPT ![x] = IF @ # 0 THEN @ ELSE dirs[x] + 1]
  /\ image' = IF whole
               THEN [image EXCEPT ![x][dir'[x]] = [there |-> TRUE, graph |-> Backed]]
               ELSE image
  /\ undefined' = (indices[x] # 0 \/ OpenedByOther(r))
  /\ UNCHANGED <<own, cached, mapMutex, log, wal, meta, acked>>

RestoreCopies(r) ==
  /\ At(r, "copy")
  /\ CopyBackup(r, TRUE)
  /\ Goto(r, "restoreMeta")

\* What was copied stays.
RestoreFails(r) ==
  /\ At(r, "copy")
  /\ \E whole \in BOOLEAN : CopyBackup(r, whole)
  /\ Goto(r, "done")

RestoreStoresMeta(r) ==
  /\ At(r, "restoreMeta")
  /\ meta' = meta \cup {Index(r)}
  /\ Goto(r, "restoreLoad")
  /\ UNCHANGED <<own, cached, mapMutex, dir, dirs, image, log, wal, acked, undefined>>

RestoreLoads(r) ==
  LET x == Index(r) IN
  /\ At(r, "restoreLoad")
  /\ IF Loadable(r)
     THEN /\ Publish(x, Fresh(image[x][dir[x]].graph, FALSE))
          /\ ref' = [ref EXCEPT ![r] = made[x] + 1]
          /\ Goto(r, "recover")
     ELSE Goto(r, "done") /\ UNCHANGED <<ref, cached>>
  /\ UNCHANGED <<req, records, total, opened, mapMutex, disk, acked, undefined>>

RestoreAnswers(r) ==
  LET x == Index(r) IN
  /\ Using(r, "answer")
  /\ acked' = [acked EXCEPT ![x][dir[x]] = @ \cup Backed]
  /\ Goto(r, "done")
  /\ UNCHANGED <<own, cached, mapMutex, disk, undefined>>
-------------------------------------------------------------------------------
Begin(r, kind, x) ==
  /\ At(r, "idle")
  /\ req' = [req EXCEPT ![r] = [kind |-> kind, index |-> x]]
  /\ Goto(r, CASE kind \in {"write", "read"} -> "find"
               [] kind = "save" -> "autosave"
               [] kind = "create" -> "askMeta"
               [] kind = "delete" -> "lockToErase"
               [] kind = "restore" -> "askRestore")
  /\ UNCHANGED <<ref, records, total, opened, world>>

\* A server that has just started: each index is saved, but for what its log holds.
Init ==
  /\ pc = [r \in Requests |-> "idle"]
  /\ req = [r \in Requests |-> [kind |-> "none", index |-> "none"]]
  /\ ref = [r \in Requests |-> 0]
  /\ records = [r \in Requests |-> {}]
  /\ total = [r \in Requests |-> 0]
  /\ opened = [r \in Requests |-> 0]
  /\ indices = [x \in Indexes |-> 0]
  /\ list = <<>>
  /\ mapMutex = NoRequest
  /\ entry = [x \in Indexes |-> [n \in Numbers |-> Fresh({}, FALSE)]]
  /\ made = [x \in Indexes |-> 0]
  /\ dir = [x \in Indexes |-> IF x \in Existing THEN 1 ELSE 0]
  /\ dirs = dir
  /\ image = [x \in Indexes |-> [n \in Numbers |->
                [NoImage EXCEPT !.there = x \in Existing /\ n = 1]]]
  /\ log = [x \in Indexes |-> [n \in Numbers |->
              IF x \in Existing /\ n = 1 THEN Logged[x] ELSE {}]]
  /\ wal = [x \in Indexes |-> NoWal]
  /\ meta = Existing
  /\ acked = [x \in Indexes |-> [n \in 0..MaxEntries |-> IF n = 0 THEN {} ELSE log[x][n]]]
  /\ undefined = FALSE

GetStep(r) ==
  \/ Find(r) \/ LockMap(r) \/ LoadFails(r) \/ Load(r) \/ ReadLog(r) \/ RecoveryFails(r) \/ Replay(r)
  \/ Fetch(r) \/ Evict(r) \/ EvictEnds(r) \/ EvictLast(r)
  \/ SaveImage(r) \/ SaveFails(r) \/ SaveClear(r) \/ SaveDone(r)

Step(r) ==
  \/ GetStep(r)
  \/ LockOp(r) \/ LogWrite(r) \/ LogFails(r) \/ Link(r) \/ Mark(r) \/ Unlock(r) \/ Read(r)
  \/ Autosave(r)
  \/ CreateAsks(r) \/ LockToEvict(r) \/ CreateOpens(r) \/ CreatePublishes(r)
  \/ CreateStoresMeta(r)
  \/ LockToErase(r) \/ Erase(r) \/ Move(r)
  \/ RestoreAsks(r) \/ RestoreCopies(r) \/ RestoreFails(r) \/ RestoreStoresMeta(r)
  \/ RestoreLoads(r) \/ RestoreAnswers(r)

\* All requests are over, or nothing more can be said.
Rest ==
  /\ undefined \/ \A r \in Requests : pc[r] = "done"
  /\ UNCHANGED vars

Next ==
  \/ \E r \in Requests :
       \/ \E ask \in Asks : ask[1] = r /\ Begin(r, ask[2], ask[3])
       \/ Step(r) \/ UseErased(r)
  \/ Rest

Spec == Init /\ [][Next]_vars

\* Server threads run on.
FairSpec == Spec /\ \A r \in Requests : WF_vars(Step(r) \/ UseErased(r))
-------------------------------------------------------------------------------
(* Properties.                                                             *)

Graphs == SUBSET Writes

Entries == [graph : Graphs, updated : BOOLEAN, holder : Requests \cup {NoRequest}]

Stages == {"idle", "find", "lockMap", "load", "recover", "replay", "evict", "evicting", "fetch",
           "saveImage", "saveClear", "saveDone", "lockOp", "log", "link", "mark", "unlock",
           "use", "autosave", "askMeta", "lockToEvict", "open", "publish", "storeMeta",
           "lockToErase", "erase", "move", "askRestore", "copy", "restoreMeta",
           "restoreLoad", "answer", "done"}

\* Types; that total is a natural number is that total_size never wraps.
CacheTypeOK ==
  /\ pc \in [Requests -> Stages]
  /\ req \in [Requests -> [kind : Kinds \cup {"none"}, index : Indexes \cup {"none"}]]
  /\ ref \in [Requests -> 0..MaxEntries] /\ records \in [Requests -> Graphs]
  /\ total \in [Requests -> Nat] /\ opened \in [Requests -> 0..MaxEntries]
  /\ indices \in [Indexes -> 0..MaxEntries] /\ made \in [Indexes -> 0..MaxEntries]
  /\ list \in Seq(Indexes) /\ mapMutex \in Requests \cup {NoRequest}
  /\ entry \in [Indexes -> [Numbers -> Entries]]
  /\ dir \in [Indexes -> 0..MaxEntries] /\ dirs \in [Indexes -> 0..MaxEntries]
  /\ image \in [Indexes -> [Numbers -> [there : BOOLEAN, graph : Graphs]]]
  /\ log \in [Indexes -> [Numbers -> Graphs]]
  /\ wal \in [Indexes -> [dir : 0..MaxEntries, count : Nat]]
  /\ meta \subseteq Indexes
  /\ acked \in [Indexes -> [0..MaxEntries -> Graphs]]
  /\ undefined \in BOOLEAN

\* An acknowledged write of an index that exists is in its image or its log: the
\* process may die now.  Eviction, recovery, saves and deletions all touch both.
Durable ==
  \A x \in Indexes :
    dir[x] # 0 => acked[x][dir[x]] \subseteq image[x][dir[x]].graph \cup log[x][dir[x]]

\* Recovery of an entry is under way.
Recovering(x) ==
  \E r \in Requests : pc[r] \in {"recover", "replay"} /\ Index(r) = x /\ ref[r] = indices[x]

\* An index in memory has the acknowledged writes, however it came to be loaded.
Served ==
  \A x \in Indexes :
    indices[x] # 0 /\ dir[x] # 0 /\ ~Recovering(x) =>
      acked[x][dir[x]] \subseteq entry[x][indices[x]].graph

\* What indices_mutex_ is for: the list has each index of the map, once.
ListMatches ==
  /\ \A i, j \in DOMAIN list : list[i] = list[j] => i = j
  /\ {list[i] : i \in DOMAIN list} = Loaded

\* Where an index may be deleted, one request at most makes it: a creation that finds the index
\* there when it publishes lists it twice, and it can only find it there if the directory was
\* moved away between its steps and another made the index again.
OneMaker ==
  \A x \in Indexes :
    (\E d \in Requests : <<d, "delete", x>> \in Asks) =>
      \A q, r \in Requests, j, k \in {"create", "restore"} :
        <<q, j, x>> \in Asks /\ <<r, k, x>> \in Asks => q = r

\* A recovery that has read the log and is not done with it.
Replaying(r) ==
  /\ Live(r)
  /\ \/ pc[r] = "replay"
     \/ /\ pc[r] \in {"saveImage", "saveClear", "saveDone"}
        /\ mapMutex = r \/ req[r].kind = "restore"

\* The overlaps that lose a write, which the code does not exclude.  Recovery runs without
\* operation_mutex: no write gets to the log meanwhile, and no save begins before the
\* replay, unless it has nothing to save.
RecoveryAlone ==
  \A q, r \in Requests :
    Live(q) /\ Live(r) /\ Index(q) = Index(r) =>
      /\ Replaying(q) => pc[r] # "log"
      /\ pc[q] \in {"recover", "replay"} => ~(pc[r] = "saveImage" /\ Entry(r).updated)

\* The log of a directory that was moved away stays open: no write is logged there.
LogOfDirectory ==
  \A r \in Requests : LET x == Index(r) IN
    pc[r] = "log" /\ Live(r) /\ dir[x] # 0 => Wal(x).dir = dir[x]

\* What a creation or a restore asked may be old when it acts: what it makes is still new.
MadeAnew ==
  \A r \in Requests : LET x == Index(r) IN
    pc[r] \in {"copy", "open"} /\ dir[x] # 0 =>
      acked[x][dir[x]] = {} /\ (pc[r] = "open" => ~Saved(x))

Undisturbed == RecoveryAlone /\ LogOfDirectory /\ MadeAnew

\* The shape of the cache.
CacheShape == CacheTypeOK /\ ListMatches

\* An index leaves memory only when it is or was deleted, or when the saved image holds all
\* that its graph holds.  The exception is a write that has not marked it yet: evicted under
\* its hands the entry is erased, and what it does next is undefined.
LeavesSaved ==
  [][\A x \in Indexes :
       LET e == entry[x][indices[x]] IN
       indices[x] # 0 /\ indices'[x] = 0 =>
         \/ \E r \in Requests : pc[r] = "erase" /\ Index(r) = x
         \/ e.holder # NoRequest /\ pc[e.holder] = "mark"
         \/ dir[x] = 0 \/ e.graph \subseteq image[x][dir[x]].graph]_vars

\* Every request is answered: no two wait for each other's lock.
RequestsEnd == \A r \in Requests : pc[r] # "idle" ~> pc[r] = "done" \/ undefined

===============================================================================
