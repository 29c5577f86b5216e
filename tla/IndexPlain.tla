------------------------------ MODULE IndexPlain ------------------------------
(***************************************************************************)
(* One index under well-meant requests: what holds of it when the process  *)
(* does not die, vectors have the right dimension, no batch repeats a name *)
(* and no object changes from one filter to another.                       *)
(***************************************************************************)
EXTENDS IndexStore

\* Nothing fails, and requests are as docs and tests have them in mind: without these, the
\* agreement of the stores is lost (see the README).
WellMeant ==
  /\ MaxCrashes = 0
  /\ BadVecs = {}
  /\ MaxId < SizeRange
  /\ \A objs \in Batches : \A i, j \in DOMAIN objs : objs[i].name = objs[j].name => i = j
  /\ \A objs, others \in Batches : \A i \in DOMAIN objs, j \in DOMAIN others :
       objs[i].name = others[j].name => objs[i].tag = others[j].tag
  /\ \A objs \in Batches : \A i \in DOMAIN objs : UpdateTags \subseteq {objs[i].tag, NoTag}

Saving == {"saveCheck", "image", "clear", "count"}

StagesOf(kind) ==
  CASE kind = "none"   -> {"none"}
    [] kind = "add"    -> {"ids", "logIds", "map"} \cup WithIds \cup Saving
    [] kind = "delete" -> {"unmap", "mark"} \cup Saving
    [] kind = "retag"  -> {"untag", "meta", "tag"}
    [] kind = "save"   -> Saving
    [] OTHER           -> {}

\* No request fails or recovers anything, and each is one that may be asked.
OpMeant ==
  /\ vecWriter = NoThread /\ crashes = 0
  /\ op.kind # "load" /\ op.stage \in StagesOf(op.kind)
  /\ op.kind = "add" =>
       op.thread \in Threads /\ op.objs \in Batches /\ op.names = {op.objs[i].name : i \in DOMAIN op.objs}
  /\ op.kind = "retag" => op.tag \in UpdateTags /\ Deleted \in OwnedLabels

\* An insert whose mappings are written and which has not reached the graph.
Adding == op.kind = "add" /\ op.stage \in WithIds

\* From then on its ids are those of its names.
AddMapped ==
  op.kind = "add" /\ op.stage \in WithIds \cup Saving =>
    /\ Len(op.ids) = Len(op.objs)
    /\ \A i \in DOMAIN op.objs : op.ids[i] # NoId /\ op.ids[i] = idmap[op.objs[i].name]

\* Its vectors are stored.
VecsStored ==
  op.kind = "add" /\ op.stage \in (WithIds \ {"vectors"}) \cup Saving =>
    \A i \in DOMAIN op.objs : vec[op.ids[i]] = op.objs[i].vec

\* Id i of a deletion is still to be dropped.
ToDrop(i) ==
  \/ op.stage = "unmap" /\ i >= op.pos
  \/ op.stage = "mark" /\ i > op.pos

\* A deletion drops the names it is about, each once.
DeleteDrops ==
  op.kind = "delete" =>
    /\ op.names = {meta[op.ids[i]].name : i \in DOMAIN op.ids}
    /\ \A i \in DOMAIN op.ids : HasMeta(op.ids[i])
    /\ \A i, j \in DOMAIN op.ids : meta[op.ids[i]].name = meta[op.ids[j]].name => i = j
    /\ \A i \in DOMAIN op.ids :
         idmap[meta[op.ids[i]].name] = IF ToDrop(i) THEN op.ids[i] ELSE NoId

\* A name has an id that the graph has live, a live id has a name; except those the request
\* is at.
LiveOwned ==
  /\ \A n \in Names : idmap[n] # NoId /\ ~(Adding /\ n \in op.names) => Image.mark[idmap[n]] = "live"
  /\ \A l \in Labels : Image.mark[l] = "live" =>
       l \in OwnedLabels \/ (At("delete", "mark") /\ l = Deleted)
  /\ At("delete", "mark") => Image.mark[Deleted] = "live" /\ Deleted \notin OwnedLabels

\* A free id waits in the graph, marked deleted.
FreeMarked ==
  \A i \in DOMAIN deletedIds :
    Image.mark[deletedIds[i]] = "deleted" \/ (At("delete", "mark") /\ deletedIds[i] = Deleted)

\* So does one that an insert has taken, until the graph gets it.
TakenMarked ==
  /\ batch.stage = "taken" => batch.reused <= Len(batch.alloc)
  /\ \A j \in DOMAIN batch.alloc : j <= batch.reused => mem.mark[batch.alloc[j]] = "deleted"
  /\ Adding => \A i \in DOMAIN op.ids : ~op.isNew[i] => mem.mark[op.ids[i]] # "absent"

\* An insert that has not stored its metadata.
Unnamed == op.kind = "add" /\ op.stage \in {"vectors", "meta"}

NamesStored ==
  \A n \in Names : idmap[n] # NoId /\ ~(Unnamed /\ n \in op.names) => meta[idmap[n]].name = n

\* The filters of an object: none, or the one it is inserted with.
TagsSettled ==
  /\ \A objs \in Batches : \A i \in DOMAIN objs :
       LET n == objs[i].name IN
       idmap[n] # NoId /\ ~(Unnamed /\ n \in op.names) => meta[idmap[n]].tag \in {objs[i].tag, NoTag}
  /\ At("add", "filters") => \A i \in DOMAIN op.ids : meta[op.ids[i]].tag = op.objs[i].tag
  /\ At("retag", "tag") => meta[Deleted].tag = op.tag

\* Labels whose bits a request is changing.
Retagged ==
  IF op.kind = "add" /\ op.stage \in {"vectors", "meta", "filters"} THEN BatchLabels
  ELSE IF At("delete", "mark") \/ At("retag", "meta") \/ At("retag", "tag") THEN {Deleted}
  ELSE {}

BitsExact ==
  /\ \A t \in Tags, l \in Labels : l \notin Retagged =>
       (l \in filt[t] <=> l \in OwnedLabels /\ meta[l].tag = t)
  /\ op.kind = "add" /\ op.stage \in {"vectors", "meta", "filters"} =>
       \A i \in DOMAIN op.ids, t \in Tags : op.ids[i] \in filt[t] => t = op.objs[i].tag
  /\ At("delete", "mark") => \A t \in Tags : Deleted \in filt[t] => t = meta[Deleted].tag
  /\ At("retag", "meta") \/ At("retag", "tag") => \A t \in Tags : Deleted \notin filt[t]

\* Every deleted element is counted once.
DelExact ==
  /\ mem.del = Cardinality(LabelsMarked(mem, "deleted"))
  /\ disk.del = Cardinality(LabelsMarked(disk, "deleted"))

\* What is not saved is marked updated, or still to be.
SavedUnlessUpdated ==
  /\ op.stage \in Saving => updated
  /\ op.stage = "count" => disk = mem /\ wal = <<>> /\ walCount = 0
  /\ ~loaded => ~updated
  /\ op.kind = "none" /\ ~updated =>
       /\ loaded => mem = disk
       /\ wal = <<>> /\ walCount = 0
       /\ elementCount = Cardinality(LabelsMarked(disk, "live"))

\* Labels whose element or log records a request is changing.
Pending ==
  IF At("add", "map") THEN {batch.alloc[i] : i \in DOMAIN batch.alloc}
  ELSE IF Adding \/ At("delete", "unmap") \/ At("delete", "mark") THEN BatchLabels
  ELSE {}

\* The labels a deletion has marked and not logged.
Dropping ==
  IF At("delete", "unmap") \/ At("delete", "mark")
  THEN {op.ids[i] : i \in {j \in DOMAIN op.ids : j < op.pos}} ELSE {}

RecordsOf(records, l) == {i \in DOMAIN records : records[i].id = l}

LastIs(records, l, ops) == RecordsOf(records, l) # {} /\ records[LastOf(RecordsOf(records, l))].op \in ops

\* WriteAheadCover, and what an insert has logged when it comes to the graph.
LogCovers ==
  /\ \A l \in Labels \ Pending :
       <<Image.mark[l], Image.at[l]>> # <<disk.mark[l], disk.at[l]>> =>
         LastIs(wal, l, IF Image.mark[l] = "deleted" THEN {"DELETE"} ELSE {"ADD", "UPDATE"})
  /\ At("add", "graph") => \A l \in BatchLabels : LastIs(wal, l, {"ADD", "UPDATE"})
  /\ \A l \in Dropping : Image.mark[l] = "deleted"

Logged(records, l, o) == \E i \in DOMAIN records : records[i] = [op |-> o, id |-> l]

\* An insert that has stored vectors the graph does not have.
Ahead == op.kind = "add" /\ op.stage \in WithIds \ {"vectors"}

\* Each record is of an element the image has, and the last if it is of a deletion.
RecordsReplay ==
  /\ \A i \in DOMAIN wal : disk.mark[wal[i].id] = "live"
  /\ \A i \in DOMAIN wal : wal[i].op = "UPDATE" => vec[wal[i].id] # NoVec
  /\ \A i, j \in DOMAIN wal : i < j /\ wal[i].id = wal[j].id => wal[i].op = "UPDATE"

\* What is marked since the save is logged, or will be.
MarksReplay ==
  /\ \A l \in Labels \ Dropping :
       Image.mark[l] = IF Logged(wal, l, "DELETE") THEN "deleted" ELSE disk.mark[l]
  /\ \A l \in Dropping : ~Logged(wal, l, "DELETE") /\ disk.mark[l] = "live"

\* What was linked since the save is logged, and its vector stored.
VectorsReplay ==
  \A l \in Labels : ~(Ahead /\ l \in BatchLabels) =>
    Image.at[l] = IF Logged(wal, l, "UPDATE") THEN vec[l] ELSE disk.at[l]

\* An insert under way brings no new object.
NothingNew ==
  /\ At("add", "map") => batch.alloc = <<>>
  /\ Adding => \A l \in BatchLabels : mem.mark[l] = "live"

\* While no new object came since the save, the log says how the graph differs from the image.
Replays ==
  AddsIn(wal) = {} /\ op.stage # "clear" =>
    RecordsReplay /\ MarksReplay /\ VectorsReplay /\ NothingNew

\* What was answered last of a name, unless a request is about it.
PromisesHeld ==
  \A n \in Names :
    /\ promise[n] = "present" => idmap[n] # NoId
    /\ promise[n] = "absent" => idmap[n] = NoId
    /\ n \in op.names => promise[n] = "unknown"

PlainInv ==
  /\ OpMeant /\ AddMapped /\ VecsStored /\ DeleteDrops
  /\ LiveOwned /\ FreeMarked /\ TakenMarked /\ NamesStored
  /\ TagsSettled /\ BitsExact /\ DelExact
  /\ SavedUnlessUpdated /\ LogCovers /\ Replays /\ PromisesHeld
===============================================================================
