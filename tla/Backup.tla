-------------------------------- MODULE Backup --------------------------------
(***************************************************************************)
(* The backups of one user (core/ndd.hpp, storage/backup_store.hpp and the *)
(* upload route of main.cpp): the request that starts a backup, the        *)
(* detached job that makes it, upload, deletion, the registration in       *)
(* backup.json and a restart, among writes to the indices.                 *)
(*                                                                         *)
(* Durable: the tar files, backup.json, the indices' databases and saved   *)
(* graphs, the metadata.json a job leaves in an index's directory while it *)
(* works.  Volatile: the active backup, the graphs in memory, the locks.   *)
(*                                                                         *)
(* An index is counted, not described: db is how many writes its databases *)
(* hold, mem its graph, image the saved graph, count the element count in  *)
(* its metadata.  Every request is made once; the file a request creates   *)
(* is called by its name, so that a path may be bound to another file while*)
(* a job still writes to the one it opened.                                *)
(***************************************************************************)
EXTENDS Naturals

CONSTANTS
  Requests,     \* requests to create, upload or delete a backup
  NoRequest,    \* also: no file
  Names,        \* names of backups
  Asks,         \* what may be asked: each a request, kind, name and index
  Indexes,      \* the user's indices
  Writer,       \* holder of an operation_mutex that is not a backup job
  MaxWrites,    \* bound on the writes to an index
  MaxRestarts   \* bound on restarts

ASSUME BackupAssumption ==
  /\ NoRequest \notin Requests /\ Writer \notin Requests \cup {NoRequest}
  /\ Asks \subseteq Requests \X {"create", "upload", "delete"} \X Names \X Indexes
  /\ MaxWrites \in Nat /\ MaxRestarts \in Nat

VARIABLES
  pc, req,      \* each request: its next step; its kind, backup name and index
  asked,        \* history: the writes acknowledged when the request came
  out,          \* the file a job or upload is writing
  info, seen,   \* what a job read of the index's metadata and of backup.json
  active,       \* active_user_backups_ at the user: the backup's name and index
  tmp, final,   \* paths: backups/.tmp/<user>/.tmp_<name>.tar, backups/<user>/<name>.tar
  file,         \* what each file holds
  json,         \* backup.json: the information about each backup
  sidecar,      \* metadata.json in the directory of an index
  db, mem, image, count,
  mutex,        \* who holds the operation_mutex of an index
  restarts

local   == <<req, asked, out, info, seen>>
jobs    == <<pc, local>>
files   == <<tmp, final, file>>
indices == <<db, mem, image, count, mutex>>
world   == <<files, indices, active, json, sidecar, restarts>>
vars    == <<jobs, world>>

NoInfo == [known |-> FALSE, count |-> 0]
Infos == [known : BOOLEAN, count : Nat]

NoActive == [name |-> "none", index |-> "none"]

\* Nothing is known of a tar until its writer is done; two writers garble it.
FileStates == {"partial", "whole", "garbled"}
Empty == [state |-> "partial", by |-> NoRequest, db |-> 0, image |-> 0, info |-> NoInfo]
Contents == [state : FileStates, by : Requests \cup {NoRequest}, db : Nat, image : Nat,
             info : Infos]

\* Stages of a job that holds the operation_mutex of its index.
Locked == {"save", "describe", "openTar", "fillTar", "undescribe"}

\* Stages between setActiveBackup and clearActiveBackup.
Running == Locked \cup {"findTar", "readMeta", "lock", "clear",
                        "failTmp", "failFinal", "failInfo", "failClear"}

Stages == Running \cup
  {"idle", "askActive", "askTar", "start", "rename", "readJson", "openJson",
   "writeJson", "done", "check", "open", "fill", "remove"}

Over == {"idle", "done"}

Goto(r, stage) == pc' = [pc EXCEPT ![r] = stage]
-------------------------------------------------------------------------------
(* Writes to an index, under its operation_mutex.                          *)

\* The databases first, then the graph: addVectors, a deletion, a filter update.
BeginWrite(x) ==
  /\ mutex[x] = NoRequest /\ db[x] < MaxWrites
  /\ mutex' = [mutex EXCEPT ![x] = Writer]
  /\ db' = [db EXCEPT ![x] = @ + 1]
  /\ UNCHANGED <<jobs, files, mem, image, count, active, json, sidecar, restarts>>

EndWrite(x) ==
  /\ mutex[x] = Writer
  /\ mem' = [mem EXCEPT ![x] = db[x]]
  /\ mutex' = [mutex EXCEPT ![x] = NoRequest]
  /\ UNCHANGED <<jobs, files, db, image, count, active, json, sidecar, restarts>>
-------------------------------------------------------------------------------
(* createBackupAsync.                                                      *)

Begin(r, kind, n, x) ==
  /\ pc[r] = "idle"
  /\ req' = [req EXCEPT ![r] = [kind |-> kind, name |-> n, index |-> x]]
  /\ asked' = [asked EXCEPT ![r] = mem[x]]
  /\ Goto(r, CASE kind = "create" -> "askActive"
               [] kind = "upload" -> "check"
               [] kind = "delete" -> "remove")
  /\ UNCHANGED <<out, info, seen, files, indices, active, json, sidecar, restarts>>

AskActive(r) ==
  /\ pc[r] = "askActive"
  /\ Goto(r, IF active = NoActive THEN "askTar" ELSE "done")
  /\ UNCHANGED <<local, world>>

AskTar(r) ==
  /\ pc[r] = "askTar"
  /\ Goto(r, IF final[req[r].name] = NoRequest THEN "start" ELSE "done")
  /\ UNCHANGED <<local, world>>

\* The request is answered here; a detached thread goes on with the job.
StartJob(r) ==
  /\ pc[r] = "start"
  /\ active' = [name |-> req[r].name, index |-> req[r].index]
  /\ Goto(r, "findTar")
  /\ UNCHANGED <<local, files, indices, json, sidecar, restarts>>
-------------------------------------------------------------------------------
(* executeBackupJob.                                                       *)

JobFindsTar(r) ==
  /\ pc[r] = "findTar"
  /\ Goto(r, IF final[req[r].name] = NoRequest THEN "readMeta" ELSE "failTmp")
  /\ UNCHANGED <<local, world>>

\* The size is measured and the metadata read without the operation_mutex.
JobReadsMeta(r) ==
  /\ pc[r] = "readMeta"
  /\ info' = [info EXCEPT ![r] = [known |-> TRUE, count |-> count[req[r].index]]]
  /\ Goto(r, "lock")
  /\ UNCHANGED <<req, asked, out, seen, files, indices, active, json, sidecar, restarts>>

\* The index's directory is gone, the disk too full, or the metadata missing.
JobIsRefused(r) ==
  /\ pc[r] = "readMeta"
  /\ Goto(r, "failTmp")
  /\ UNCHANGED <<local, world>>

\* Mutant: the job does not wait for the mutex.
JobLocksNothing(r) ==
  /\ pc[r] = "lock"
  /\ Goto(r, "save")
  /\ UNCHANGED <<local, world>>

JobLocks(r) ==
  /\ pc[r] = "lock" /\ mutex[req[r].index] = NoRequest
  /\ mutex' = [mutex EXCEPT ![req[r].index] = r]
  /\ Goto(r, "save")
  /\ UNCHANGED <<local, files, db, mem, image, count, active, json,
                 sidecar, restarts>>

\* saveIndexInternal; when nothing changed since the last save there is nothing to do.
JobSaves(r) ==
  LET x == req[r].index IN
  /\ pc[r] = "save"
  /\ image' = [image EXCEPT ![x] = mem[x]]
  /\ count' = [count EXCEPT ![x] = mem[x]]
  /\ Goto(r, "describe")
  /\ UNCHANGED <<local, files, db, mem, mutex, active, json, sidecar,
                 restarts>>

JobDescribes(r) ==
  /\ pc[r] = "describe"
  /\ sidecar' = [sidecar EXCEPT ![req[r].index] = info[r]]
  /\ Goto(r, "openTar")
  /\ UNCHANGED <<local, files, indices, active, json, restarts>>

\* Opening a path for writing truncates the file it names, or makes one.
Opened(path, r) == IF path = NoRequest THEN r ELSE path

\* Mutant: the tar is written under its final name.
JobOpensFinal(r) ==
  LET f == Opened(final[req[r].name], r) IN
  /\ pc[r] = "openTar"
  /\ final' = [final EXCEPT ![req[r].name] = f]
  /\ file' = [file EXCEPT ![f] = Empty]
  /\ out' = [out EXCEPT ![r] = f]
  /\ Goto(r, "fillTar")
  /\ UNCHANGED <<req, asked, info, seen, tmp, indices, active, json, sidecar, restarts>>

JobOpensTar(r) ==
  LET f == Opened(tmp[req[r].name], r) IN
  /\ pc[r] = "openTar"
  /\ tmp' = [tmp EXCEPT ![req[r].name] = f]
  /\ file' = [file EXCEPT ![f] = Empty]
  /\ out' = [out EXCEPT ![r] = f]
  /\ Goto(r, "fillTar")
  /\ UNCHANGED <<req, asked, info, seen, final, indices, active, json, sidecar, restarts>>

\* What a file holds when r has written content to it.
Filled(r, content) ==
  IF \/ file[out[r]].state = "garbled"
     \/ \E q \in Requests \ {r} : pc[q] \in {"fillTar", "fill"} /\ out[q] = out[r]
  THEN [Empty EXCEPT !.state = "garbled"]
  ELSE content

JobFillsTar(r) ==
  LET x == req[r].index IN
  /\ pc[r] = "fillTar"
  /\ file' = [file EXCEPT ![out[r]] =
                Filled(r, [state |-> "whole", by |-> r, db |-> db[x],
                           image |-> image[x], info |-> sidecar[x]])]
  /\ Goto(r, "undescribe")
  /\ UNCHANGED <<local, tmp, final, indices, active, json, sidecar,
                 restarts>>

Unlock(x) == mutex' = [mutex EXCEPT ![x] = NoRequest]

\* createBackupTar fails: the description is removed, then the lock released.
JobFailsToTar(r) ==
  /\ pc[r] \in {"openTar", "fillTar"}
  /\ sidecar' = [sidecar EXCEPT ![req[r].index] = NoInfo]
  /\ Unlock(req[r].index)
  /\ Goto(r, "failTmp")
  /\ UNCHANGED <<local, files, db, mem, image, count, active, json,
                 restarts>>

\* An exception while the lock is held, in the save, the description or the walk
\* through the directory: the guard releases the lock, the description stays.
JobThrows(r) ==
  /\ pc[r] \in {"save", "describe", "openTar", "fillTar"}
  /\ Unlock(req[r].index)
  /\ Goto(r, "failTmp")
  /\ UNCHANGED <<local, files, db, mem, image, count, active, json, sidecar, restarts>>

\* Only when the tar is still under its temporary name is the description removed here.
JobUnlocks(r) ==
  LET x == req[r].index
      there == tmp[req[r].name] # NoRequest IN
  /\ pc[r] = "undescribe"
  /\ sidecar' = IF there THEN [sidecar EXCEPT ![x] = NoInfo] ELSE sidecar
  /\ Unlock(x)
  /\ Goto(r, IF there THEN "clear" ELSE "failTmp")
  /\ UNCHANGED <<local, files, db, mem, image, count, active, json,
                 restarts>>

\* clearActiveBackup: whoever's backup the user's entry is.
JobClears(r) ==
  /\ pc[r] = "clear"
  /\ active' = NoActive
  /\ Goto(r, "rename")
  /\ UNCHANGED <<local, files, indices, json, sidecar, restarts>>

JobRenames(r) ==
  LET n == req[r].name IN
  /\ pc[r] = "rename"
  /\ IF tmp[n] = NoRequest
     THEN Goto(r, "failTmp") /\ UNCHANGED <<tmp, final>>
     ELSE /\ Goto(r, "readJson")
          /\ final' = [final EXCEPT ![n] = tmp[n]]
          /\ tmp' = [tmp EXCEPT ![n] = NoRequest]
  /\ UNCHANGED <<local, file, indices, active, json, sidecar, restarts>>
-------------------------------------------------------------------------------
(* The error handler of executeBackupJob.                                  *)

FailTmp(r) ==
  /\ pc[r] = "failTmp"
  /\ tmp' = [tmp EXCEPT ![req[r].name] = NoRequest]
  /\ Goto(r, "failFinal")
  /\ UNCHANGED <<local, final, file, indices, active, json, sidecar,
                 restarts>>

FailFinal(r) ==
  /\ pc[r] = "failFinal"
  /\ final' = [final EXCEPT ![req[r].name] = NoRequest]
  /\ Goto(r, "failInfo")
  /\ UNCHANGED <<local, tmp, file, indices, active, json, sidecar,
                 restarts>>

\* Mutant: the descriptions in the directories of all the user's indices are removed.
FailDropsAllInfo(r) ==
  /\ pc[r] = "failInfo"
  /\ sidecar' = [x \in Indexes |-> NoInfo]
  /\ Goto(r, "failClear")
  /\ UNCHANGED <<local, files, indices, active, json, restarts>>

\* Mutant: the description stays in the index's directory.
FailKeepsInfo(r) ==
  /\ pc[r] = "failInfo"
  /\ Goto(r, "failClear")
  /\ UNCHANGED <<local, world>>

FailInfo(r) ==
  /\ pc[r] = "failInfo"
  /\ sidecar' = [sidecar EXCEPT ![req[r].index] = NoInfo]
  /\ Goto(r, "failClear")
  /\ UNCHANGED <<local, files, indices, active, json, restarts>>

\* Mutant: the backup that failed stays the active one.
FailStaysActive(r) ==
  /\ pc[r] = "failClear"
  /\ Goto(r, "done")
  /\ UNCHANGED <<local, world>>

FailClear(r) ==
  /\ pc[r] = "failClear"
  /\ active' = NoActive
  /\ Goto(r, "done")
  /\ UNCHANGED <<local, files, indices, json, sidecar, restarts>>
-------------------------------------------------------------------------------
(* backup.json: read, changed in memory, written back.  What cannot be     *)
(* parsed is read as empty.                                                *)

EmptyJson == [n \in Names |-> NoInfo]

ReadJson(r) ==
  /\ pc[r] = "readJson"
  /\ seen' = [seen EXCEPT ![r] = json]
  /\ Goto(r, "openJson")
  /\ UNCHANGED <<req, asked, out, info, world>>

OpenJson(r) ==
  /\ pc[r] = "openJson"
  /\ json' = EmptyJson
  /\ Goto(r, "writeJson")
  /\ UNCHANGED <<local, files, indices, active, sidecar, restarts>>

\* A backup's job enters it, a deletion erases it.  Writing over what another
\* wrote since this one opened the file may leave the end of the longer text.
WriteJson(r) ==
  LET mine == [seen[r] EXCEPT ![req[r].name] =
                 IF req[r].kind = "create" THEN info[r] ELSE NoInfo] IN
  /\ pc[r] = "writeJson"
  /\ json' \in {mine} \cup IF json = EmptyJson THEN {} ELSE {EmptyJson}
  /\ Goto(r, "done")
  /\ UNCHANGED <<local, files, indices, active, sidecar, restarts>>
-------------------------------------------------------------------------------
(* deleteBackup, and the upload route.                                     *)

DeleteTar(r) ==
  LET n == req[r].name IN
  /\ pc[r] = "remove"
  /\ Goto(r, IF final[n] = NoRequest THEN "done" ELSE "readJson")
  /\ final' = [final EXCEPT ![n] = NoRequest]
  /\ UNCHANGED <<local, tmp, file, indices, active, json, sidecar, restarts>>

UploadFindsTar(r) ==
  /\ pc[r] = "check"
  /\ Goto(r, IF final[req[r].name] = NoRequest THEN "open" ELSE "done")
  /\ UNCHANGED <<local, world>>

UploadOpens(r) ==
  LET f == Opened(final[req[r].name], r) IN
  /\ pc[r] = "open"
  /\ final' = [final EXCEPT ![req[r].name] = f]
  /\ file' = [file EXCEPT ![f] = Empty]
  /\ out' = [out EXCEPT ![r] = f]
  /\ Goto(r, "fill")
  /\ UNCHANGED <<req, asked, info, seen, tmp, indices, active, json, sidecar, restarts>>

\* A tar from elsewhere: nothing is known of its index here.
UploadFills(r) ==
  /\ pc[r] = "fill"
  /\ file' = [file EXCEPT ![out[r]] =
                Filled(r, [Empty EXCEPT !.state = "whole", !.by = r])]
  /\ Goto(r, "done")
  /\ UNCHANGED <<local, tmp, final, indices, active, json, sidecar, restarts>>

UploadFails(r) ==
  /\ pc[r] = "fill"
  /\ final' = [final EXCEPT ![req[r].name] = NoRequest]
  /\ Goto(r, "done")
  /\ UNCHANGED <<local, tmp, file, indices, active, json, sidecar, restarts>>
-------------------------------------------------------------------------------
(* The process is restarted: threads end, what is in memory is lost, and   *)
(* BackupStore's constructor empties the temporary directory.  An index    *)
(* that is loaded again replays its log, which the model takes to bring    *)
(* back what its databases hold (IndexStore shows when it does), and saves.*)

\* Mutant: not only the temporary directory is emptied.
RestartEmptiesAll ==
  /\ restarts < MaxRestarts
  /\ \A x \in Indexes : mutex[x] # Writer
  /\ restarts' = restarts + 1
  /\ pc' = [r \in Requests |-> IF pc[r] = "idle" THEN "idle" ELSE "done"]
  /\ active' = NoActive
  /\ tmp' = [n \in Names |-> NoRequest] /\ final' = tmp'
  /\ mutex' = [x \in Indexes |-> NoRequest]
  /\ mem' = db /\ image' = db /\ count' = db
  /\ UNCHANGED <<local, file, db, json, sidecar>>

Restart ==
  /\ restarts < MaxRestarts
  /\ \A x \in Indexes : mutex[x] # Writer
  /\ restarts' = restarts + 1
  /\ pc' = [r \in Requests |-> IF pc[r] = "idle" THEN "idle" ELSE "done"]
  /\ active' = NoActive
  /\ tmp' = [n \in Names |-> NoRequest]
  /\ mutex' = [x \in Indexes |-> NoRequest]
  /\ mem' = db /\ image' = db /\ count' = db
  /\ UNCHANGED <<local, final, file, db, json, sidecar>>
-------------------------------------------------------------------------------
Init ==
  /\ pc = [r \in Requests |-> "idle"]
  /\ req = [r \in Requests |-> [kind |-> "none", name |-> "none", index |-> "none"]]
  /\ asked = [r \in Requests |-> 0]
  /\ out = [r \in Requests |-> NoRequest]
  /\ info = [r \in Requests |-> NoInfo]
  /\ seen = [r \in Requests |-> EmptyJson]
  /\ active = NoActive
  /\ tmp = [n \in Names |-> NoRequest] /\ final = [n \in Names |-> NoRequest]
  /\ file = [r \in Requests |-> Empty]
  /\ json = EmptyJson
  /\ sidecar = [x \in Indexes |-> NoInfo]
  /\ db = [x \in Indexes |-> 0] /\ mem = db /\ image = db /\ count = db
  /\ mutex = [x \in Indexes |-> NoRequest]
  /\ restarts = 0

JobStep(r) ==
  \/ JobFindsTar(r) \/ JobReadsMeta(r) \/ JobIsRefused(r) \/ JobLocks(r)
  \/ JobSaves(r) \/ JobDescribes(r) \/ JobOpensTar(r) \/ JobFillsTar(r)
  \/ JobFailsToTar(r) \/ JobThrows(r) \/ JobUnlocks(r) \/ JobClears(r) \/ JobRenames(r)
  \/ FailTmp(r) \/ FailFinal(r) \/ FailInfo(r) \/ FailClear(r)

RequestStep(r) ==
  \/ AskActive(r) \/ AskTar(r) \/ StartJob(r)
  \/ ReadJson(r) \/ OpenJson(r) \/ WriteJson(r) \/ DeleteTar(r)
  \/ UploadFindsTar(r) \/ UploadOpens(r) \/ UploadFills(r) \/ UploadFails(r)

Step(r) == JobStep(r) \/ RequestStep(r)

\* Every request has been made and answered, every write done.
Rest ==
  /\ \A r \in Requests : pc[r] = "done"
  /\ \A x \in Indexes : mutex[x] = NoRequest
  /\ UNCHANGED vars

Next ==
  \/ \E x \in Indexes : BeginWrite(x) \/ EndWrite(x)
  \/ \E r \in Requests :
       \/ \E ask \in Asks : ask[1] = r /\ Begin(r, ask[2], ask[3], ask[4])
       \/ Step(r)
  \/ Restart
  \/ Rest

Spec == Init /\ [][Next]_vars

\* Server threads and detached jobs run on; a write that holds the mutex ends.
Fairness ==
  /\ \A r \in Requests : WF_vars(Step(r))
  /\ \A x \in Indexes : WF_vars(EndWrite(x))

FairSpec == Spec /\ Fairness
-------------------------------------------------------------------------------
(* Properties.                                                             *)

Paths == [Names -> Requests \cup {NoRequest}]

IndexCounts == [Indexes -> 0..MaxWrites]

\* No file has two names.
PathsDistinct ==
  \A n, m \in Names :
    /\ tmp[n] # NoRequest => tmp[n] # final[m]
    /\ n # m /\ tmp[n] # NoRequest => tmp[n] # tmp[m]
    /\ n # m /\ final[n] # NoRequest => final[n] # final[m]

\* Types; and a rename moves a tar, so that no file is reached by two paths.
BackupTypeOK ==
  /\ pc \in [Requests -> Stages]
  /\ req \in [Requests -> [kind : {"none", "create", "upload", "delete"},
                          name : Names \cup {"none"}, index : Indexes \cup {"none"}]]
  /\ active \in [name : Names \cup {"none"}, index : Indexes \cup {"none"}]
  /\ asked \in [Requests -> 0..MaxWrites]
  /\ out \in [Requests -> Requests \cup {NoRequest}]
  /\ info \in [Requests -> Infos] /\ seen \in [Requests -> [Names -> Infos]]
  /\ tmp \in Paths /\ final \in Paths /\ PathsDistinct
  /\ file \in [Requests -> Contents]
  /\ json \in [Names -> Infos] /\ sidecar \in [Indexes -> Infos]
  /\ db \in IndexCounts /\ mem \in IndexCounts
  /\ image \in IndexCounts /\ count \in IndexCounts
  /\ mutex \in [Indexes -> Requests \cup {NoRequest, Writer}]
  /\ restarts \in 0..MaxRestarts

MadeByJob(f) == req[f].kind = "create"

\* A tar a job has written holds databases and graph of one moment, and every
\* write acknowledged before the backup was asked for: what the job's hold on
\* operation_mutex and its save are there for, whatever other jobs do.
TarExact ==
  \A f \in Requests :
    LET c == file[f] IN
    c.state = "whole" /\ MadeByJob(c.by) => c.db = c.image /\ c.image >= asked[c.by]

\* When all requests are over, no job has left a temporary tar, a description in
\* an index's directory or an active backup behind, unless the process died.
NoLeftovers ==
  restarts = 0 /\ (\A r \in Requests : pc[r] \in Over) =>
    /\ active = NoActive
    /\ \A n \in Names : tmp[n] = NoRequest
    /\ \A x \in Indexes : ~sidecar[x].known

\* Jobs and uploads have different names, and jobs different indices, as is meant: those of
\* one name or index remove each other's files, or write over them (see the README).
Apart ==
  \A q, r \in Requests :
    q # r /\ {req[q].kind, req[r].kind} \subseteq {"create", "upload"} =>
      /\ req[q].name # req[r].name
      /\ MadeByJob(q) /\ MadeByJob(r) => req[q].index # req[r].index

\* A backup under its final name is complete (backup-system.md: the tar is
\* written elsewhere first, then renamed), if no other job is after its name or index.
FinalWhole ==
  Apart => \A n \in Names :
    final[n] # NoRequest /\ MadeByJob(final[n]) => file[final[n]].state = "whole"

\* A complete backup disappears, or gives way to another, only by a request that
\* deletes it: not by a job that fails, nor by a restart; other jobs Apart.
FinishedKept ==
  [][Apart' => \A n \in Names :
       final[n] # NoRequest /\ file[final[n]].state = "whole" /\ final'[n] # final[n] =>
         \E r \in Requests : pc[r] = "remove" /\ req[r].name = n /\ pc'[r] # "remove"]_vars

\* A tar a job has written holds the description without which it cannot be restored
\* (backup-system.md: metadata.json is written before the tar and removed after it); other
\* jobs Apart.
TarDescribed ==
  Apart => \A f \in Requests :
    file[f].state = "whole" /\ MadeByJob(file[f].by) => file[f].info.known

\* The user may start another backup again: the active one ends, however it ends.
ActiveEnds == active # NoActive ~> active = NoActive
-------------------------------------------------------------------------------
(* The inductive invariant: what TarExact and the paths rest on.           *)

\* A request that has come is one that may be asked.
Asked ==
  \A r \in Requests :
    pc[r] # "idle" => \E ask \in Asks :
      ask[1] = r /\ req[r] = [kind |-> ask[2], name |-> ask[3], index |-> ask[4]]

\* Only an upload writes what it did not read from an index.
UploadsUpload ==
  \A r \in Requests : pc[r] \in {"check", "open", "fill"} => req[r].kind = "upload"

\* Stages of a request that has opened a file for writing, or had no need to.
Opener == {"fillTar", "fill", "undescribe", "clear", "rename", "readJson", "openJson",
           "writeJson", "done", "failTmp", "failFinal", "failInfo", "failClear"}

\* A path leads to a file which the request that made it has opened.
PathsOpened ==
  /\ \A r \in Requests : pc[r] \notin Opener => out[r] = NoRequest
  /\ \A r \in Requests : pc[r] \in {"fillTar", "fill"} => out[r] # NoRequest
  /\ \A n \in Names :
       /\ tmp[n] # NoRequest => out[tmp[n]] = tmp[n]
       /\ final[n] # NoRequest => out[final[n]] = final[n]

\* operation_mutex: who works on an index holds it.
LockHeld == \A r \in Requests : pc[r] \in Locked => mutex[req[r].index] = r

\* Between two writes the graph holds what the databases hold.
Quiet ==
  \A x \in Indexes : mem[x] <= db[x] /\ (mutex[x] # Writer => mem[x] = db[x])

\* What a job has saved stays as it is while the job holds the lock.
SavedHeld ==
  \A r \in Requests :
    pc[r] \in Locked \ {"save"} => image[req[r].index] = mem[req[r].index]

\* No write is undone.
AskedReached == \A r \in Requests : pc[r] # "idle" => asked[r] <= mem[req[r].index]

\* Who wrote a file has begun.
WritersBegun ==
  \A f \in Requests :
    file[f].state = "whole" => file[f].by \in Requests /\ pc[file[f].by] # "idle"

\* Which requests are at which stages, and what they are before they come.
KindsOK ==
  \A r \in Requests :
    /\ pc[r] = "idle" => req[r].kind = "none"
    /\ pc[r] \in Running \cup {"askActive", "askTar", "start", "rename"} => MadeByJob(r)

\* What a job leaves for a while, a job is still there to take away.
Tidied ==
  /\ active # NoActive => \E r \in Requests : pc[r] \in Running
  /\ \A n \in Names : tmp[n] # NoRequest =>
       \E r \in Requests :
         req[r].name = n /\ pc[r] \in {"fillTar", "undescribe", "clear", "rename", "failTmp"}
  /\ restarts = 0 => \A x \in Indexes : sidecar[x].known =>
       \E r \in Requests :
         /\ req[r].index = x
         /\ pc[r] \in {"openTar", "fillTar", "undescribe", "failTmp", "failFinal", "failInfo"}

\* A file is reached by the name of the request that made it.
PathsNamed ==
  \A n \in Names :
    /\ tmp[n] # NoRequest => MadeByJob(tmp[n]) /\ req[tmp[n]].name = n
    /\ final[n] # NoRequest => req[final[n]].name = n /\ req[final[n]].kind \in {"create", "upload"}

\* Apart, each writes the file it made, which is whole once it was written; and it has no
\* final name until it is renamed.
Separate ==
  Apart => \A r \in Requests :
    /\ out[r] \in {NoRequest, r}
    /\ pc[r] \in {"fillTar", "fill"} => file[r].state = "partial"
    /\ pc[r] \in {"undescribe", "clear", "rename"} => file[r].state = "whole"
    /\ pc[r] \in {"fillTar", "undescribe", "clear", "rename", "failTmp", "failFinal"} =>
         final[req[r].name] # r

\* What describes the index is read before it is written, and stays until the tar has it.
InfoRead == \A r \in Requests : pc[r] \in {"lock", "save", "describe"} => info[r].known

InfoWritten ==
  Apart => \A r \in Requests :
    pc[r] \in {"openTar", "fillTar"} => sidecar[req[r].index].known

BackupInv ==
  /\ BackupTypeOK /\ Asked /\ UploadsUpload /\ PathsOpened
  /\ LockHeld /\ Quiet /\ SavedHeld /\ AskedReached
  /\ WritersBegun /\ TarExact
  /\ KindsOK /\ Tidied /\ PathsNamed /\ Separate /\ InfoRead /\ InfoWritten
===============================================================================
