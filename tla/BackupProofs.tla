----------------------------- MODULE BackupProofs -----------------------------
(***************************************************************************)
(* That a finished backup is exact, for any number of requests, names,     *)
(* indices, writes and restarts.                                           *)
(***************************************************************************)
EXTENDS Backup, TLAPS

\* A request that has come has a kind, a name and an index.
LEMMA RequestHasParts ==
  ASSUME Asked, NEW r \in Requests, pc[r] # "idle"
  PROVE  /\ req[r].kind \in {"create", "upload", "delete"}
         /\ req[r].name \in Names /\ req[r].index \in Indexes
<1>1. PICK ask \in Asks :
        ask[1] = r /\ req[r] = [kind |-> ask[2], name |-> ask[3], index |-> ask[4]]
  BY DEF Asked
<1>2. /\ ask[2] \in {"create", "upload", "delete"} /\ ask[3] \in Names
      /\ ask[4] \in Indexes
  BY BackupAssumption
<1> QED
  BY <1>1, <1>2

\* The types, without the paths.
TypesOnly ==
  /\ pc \in [Requests -> Stages]
  /\ req \in [Requests -> [kind : {"none", "create", "upload", "delete"},
                          name : Names \cup {"none"}, index : Indexes \cup {"none"}]]
  /\ active \in [name : Names \cup {"none"}, index : Indexes \cup {"none"}]
  /\ asked \in [Requests -> 0..MaxWrites]
  /\ out \in [Requests -> Requests \cup {NoRequest}]
  /\ info \in [Requests -> Infos] /\ seen \in [Requests -> [Names -> Infos]]
  /\ tmp \in Paths /\ final \in Paths
  /\ file \in [Requests -> Contents]
  /\ json \in [Names -> Infos] /\ sidecar \in [Indexes -> Infos]
  /\ db \in IndexCounts /\ mem \in IndexCounts
  /\ image \in IndexCounts /\ count \in IndexCounts
  /\ mutex \in [Indexes -> Requests \cup {NoRequest, Writer}]
  /\ restarts \in 0..MaxRestarts

\* The same, said in one formula.
LEMMA TypeParts == BackupTypeOK <=> TypesOnly /\ PathsDistinct
  BY DEF BackupTypeOK, TypesOnly

\* Moving on to another stage keeps the stages.
LEMMA GotoKeeps ==
  ASSUME NEW r \in Requests, NEW stage \in Stages, pc \in [Requests -> Stages],
         Goto(r, stage)
  PROVE  /\ pc' \in [Requests -> Stages] /\ pc'[r] = stage
         /\ \A q \in Requests \ {r} : pc'[q] = pc[q]
  BY DEF Goto

\* What is written to a file is content.
LEMMA ContentsOK ==
  /\ NoInfo \in Infos /\ Empty \in Contents
  /\ [Empty EXCEPT !.state = "garbled"] \in Contents
  /\ \A r \in Requests, d, i \in Nat, n \in Infos :
       [state |-> "whole", by |-> r, db |-> d, image |-> i, info |-> n] \in Contents
  /\ \A r \in Requests : [Empty EXCEPT !.state = "whole", !.by = r] \in Contents
  BY DEF NoInfo, Infos, Empty, Contents, FileStates

LEMMA FilledIsContent ==
  ASSUME NEW r, NEW content \in Contents
  PROVE  Filled(r, content) \in Contents
  BY ContentsOK DEF Filled

USE DEF Stages, Running, Locked

\* The steps of a job keep the types.
LEMMA JobKeepsTypes ==
  ASSUME BackupInv, NEW r \in Requests, JobStep(r)
  PROVE  TypesOnly'
<1> USE DEF BackupInv, TypesOnly, Paths, IndexCounts
<1>1. TypesOnly /\ Asked /\ PathsOpened
  BY TypeParts
<1>2. pc[r] # "idle"
  BY DEF JobStep, JobFindsTar, JobReadsMeta, JobIsRefused, JobLocks, JobSaves, JobDescribes,
     JobOpensTar, JobFillsTar, JobFailsToTar, JobThrows, JobUnlocks, JobClears, JobRenames, FailTmp,
     FailFinal, FailInfo, FailClear
<1>3. req[r].name \in Names /\ req[r].index \in Indexes
  BY <1>1, <1>2, RequestHasParts
<1>4. CASE JobFindsTar(r) \/ JobIsRefused(r)
  BY <1>1, <1>4 DEF JobFindsTar, JobIsRefused, Goto, local, world, files, indices
<1>5. CASE JobReadsMeta(r)
  <2>1. [known |-> TRUE, count |-> count[req[r].index]] \in Infos
    BY <1>1, <1>3, BackupAssumption DEF Infos
  <2> QED
    BY <1>1, <1>5, <2>1 DEF JobReadsMeta, Goto, files, indices
<1>6. CASE JobLocks(r)
  BY <1>1, <1>3, <1>6 DEF JobLocks, Goto, local, files
<1>7. CASE JobSaves(r)
  BY <1>1, <1>3, <1>7 DEF JobSaves, Goto, local, files
<1>8. CASE JobDescribes(r)
  BY <1>1, <1>3, <1>8 DEF JobDescribes, Goto, local, files, indices
<1>9. CASE JobOpensTar(r)
  <2>1. Opened(tmp[req[r].name], r) \in Requests
    BY <1>1, <1>3 DEF Opened
  <2> QED
    BY <1>1, <1>3, <1>9, <2>1, ContentsOK DEF JobOpensTar, Goto, indices
<1>10. CASE JobFillsTar(r)
  <2> DEFINE x == req[r].index
             c == Filled(r, [state |-> "whole", by |-> r, db |-> db[x],
                             image |-> image[x], info |-> sidecar[x]])
  <2>1. db[x] \in Nat /\ image[x] \in Nat /\ sidecar[x] \in Infos
    BY <1>1, <1>3, BackupAssumption
  <2>2. c \in Contents
    BY <2>1, ContentsOK, FilledIsContent
  <2>3. file' = [file EXCEPT ![out[r]] = c]
    BY <1>10 DEF JobFillsTar
  <2> HIDE DEF c
  <2>4. file' \in [Requests -> Contents]
    BY <1>1, <2>2, <2>3
  <2> QED
    BY <1>1, <1>10, <2>4 DEF JobFillsTar, Goto, indices, local
<1>11. CASE JobFailsToTar(r)
  BY <1>1, <1>3, <1>11, ContentsOK DEF JobFailsToTar, Unlock, Goto, local, files
<1>12. CASE JobUnlocks(r)
  BY <1>1, <1>3, <1>12, ContentsOK DEF JobUnlocks, Unlock, Goto, local, files
<1>13. CASE JobClears(r) \/ FailClear(r)
  <2>1. NoActive \in [name : Names \cup {"none"}, index : Indexes \cup {"none"}]
    BY DEF NoActive
  <2>2. active' = NoActive
    BY <1>13 DEF JobClears, FailClear
  <2>3. active' \in [name : Names \cup {"none"}, index : Indexes \cup {"none"}]
    BY <2>1, <2>2
  <2> QED
    BY <1>1, <1>13, <2>3 DEF JobClears, FailClear, Goto, local, files, indices
<1>14. CASE JobRenames(r)
  BY <1>1, <1>3, <1>14 DEF JobRenames, Goto, local, indices
<1>15. CASE FailTmp(r) \/ FailFinal(r)
  BY <1>1, <1>3, <1>15 DEF FailTmp, FailFinal, Goto, local, indices
<1>16. CASE FailInfo(r)
  BY <1>1, <1>3, <1>16, ContentsOK DEF FailInfo, Goto, local, files, indices
<1>17. CASE JobThrows(r)
  BY <1>1, <1>3, <1>17, ContentsOK DEF JobThrows, Unlock, Goto, local, files
<1> QED
  BY <1>4, <1>5, <1>6, <1>7, <1>8, <1>9, <1>10, <1>11, <1>12, <1>13, <1>14, <1>15, <1>16,
     <1>17
     DEF JobStep

\* So do those of a request.
LEMMA RequestKeepsTypes ==
  ASSUME BackupInv, NEW r \in Requests, RequestStep(r)
  PROVE  TypesOnly'
<1> USE DEF BackupInv, TypesOnly, Paths, IndexCounts
<1>1. TypesOnly /\ Asked /\ PathsOpened
  BY TypeParts
<1>2. pc[r] # "idle"
  BY DEF RequestStep, AskActive, AskTar, StartJob, ReadJson, OpenJson, WriteJson, DeleteTar,
     UploadFindsTar, UploadOpens, UploadFills, UploadFails
<1>3. req[r].name \in Names /\ req[r].index \in Indexes
  BY <1>1, <1>2, RequestHasParts
<1>4. EmptyJson \in [Names -> Infos]
  BY ContentsOK DEF EmptyJson
<1>5. CASE AskActive(r) \/ AskTar(r) \/ UploadFindsTar(r)
  BY <1>1, <1>5 DEF AskActive, AskTar, UploadFindsTar, Goto, local, world, files, indices
<1>6. CASE StartJob(r)
  <2>1. active' \in [name : Names \cup {"none"}, index : Indexes \cup {"none"}]
    BY <1>3, <1>6 DEF StartJob
  <2> QED
    BY <1>1, <1>6, <2>1 DEF StartJob, Goto, local, files, indices
<1>7. CASE ReadJson(r)
  BY <1>1, <1>7 DEF ReadJson, Goto, world, files, indices
<1>8. CASE OpenJson(r)
  BY <1>1, <1>4, <1>8 DEF OpenJson, Goto, local, files, indices
<1>9. CASE WriteJson(r)
  <2> DEFINE mine == [seen[r] EXCEPT ![req[r].name] =
                        IF req[r].kind = "create" THEN info[r] ELSE NoInfo]
  <2>1. mine \in [Names -> Infos]
    BY <1>1, ContentsOK
  <2>2. json' \in {mine, EmptyJson}
    BY <1>9 DEF WriteJson
  <2>3. json' \in [Names -> Infos]
    BY <1>4, <2>1, <2>2
  <2> QED
    BY <1>1, <1>9, <2>3 DEF WriteJson, Goto, local, files, indices
<1>10. CASE DeleteTar(r)
  BY <1>1, <1>10 DEF DeleteTar, Goto, local, indices
<1>11. CASE UploadOpens(r)
  <2>1. Opened(final[req[r].name], r) \in Requests
    BY <1>1, <1>3 DEF Opened
  <2> QED
    BY <1>1, <1>3, <1>11, <2>1, ContentsOK DEF UploadOpens, Goto, indices
<1>12. CASE UploadFills(r)
  <2> DEFINE c == Filled(r, [Empty EXCEPT !.state = "whole", !.by = r])
  <2>1. c \in Contents
    BY ContentsOK, FilledIsContent
  <2>2. file' = [file EXCEPT ![out[r]] = c]
    BY <1>12 DEF UploadFills
  <2> HIDE DEF c
  <2>3. file' \in [Requests -> Contents]
    BY <1>1, <2>1, <2>2
  <2> QED
    BY <1>1, <1>12, <2>3 DEF UploadFills, Goto, indices, local
<1>13. CASE UploadFails(r)
  BY <1>1, <1>13 DEF UploadFails, Goto, local, indices
<1> QED
  BY <1>5, <1>6, <1>7, <1>8, <1>9, <1>10, <1>11, <1>12, <1>13 DEF RequestStep

\* And every step there is.
LEMMA StepKeepsTypes ==
  ASSUME BackupInv, [Next]_vars
  PROVE  TypesOnly'
<1> USE DEF BackupInv, TypesOnly, Paths, IndexCounts
<1>1. TypesOnly /\ Asked /\ Quiet
  BY TypeParts
<1>2. ASSUME NEW x \in Indexes, BeginWrite(x)
      PROVE  TypesOnly'
  <2>1. db[x] + 1 \in 0..MaxWrites
    BY <1>1, <1>2, BackupAssumption DEF BeginWrite
  <2> QED
    BY <1>1, <1>2, <2>1 DEF BeginWrite, jobs, local, files
<1>3. ASSUME NEW x \in Indexes, EndWrite(x)
      PROVE  TypesOnly'
  BY <1>1, <1>3 DEF EndWrite, jobs, local, files
<1>4. ASSUME NEW r \in Requests, NEW ask \in Asks, ask[1] = r,
             Begin(r, ask[2], ask[3], ask[4])
      PROVE  TypesOnly'
  <2>1. /\ ask[2] \in {"create", "upload", "delete"} /\ ask[3] \in Names
        /\ ask[4] \in Indexes
    BY BackupAssumption
  <2>2. mem[ask[4]] \in 0..MaxWrites
    BY <1>1, <2>1
  <2>3. pc' \in [Requests -> Stages]
    BY <1>1, <1>4, <2>1 DEF Begin, Goto
  <2> QED
    BY <1>1, <1>4, <2>1, <2>2, <2>3 DEF Begin, files, indices
<1>5. CASE Restart
  <2>1. NoActive \in [name : Names \cup {"none"}, index : Indexes \cup {"none"}]
    BY DEF NoActive
  <2>2. pc' \in [Requests -> Stages]
    BY <1>5 DEF Restart
  <2>3. active' \in [name : Names \cup {"none"}, index : Indexes \cup {"none"}]
    BY <1>5, <2>1 DEF Restart
  <2>4. restarts' \in 0..MaxRestarts
    BY <1>1, <1>5, BackupAssumption DEF Restart
  <2> QED
    BY <1>1, <1>5, <2>2, <2>3, <2>4 DEF Restart, local
<1>6. CASE UNCHANGED vars
  BY <1>1, <1>6 DEF vars, jobs, local, world, files, indices
<1> QED
  BY <1>2, <1>3, <1>4, <1>5, <1>6, JobKeepsTypes, RequestKeepsTypes DEF Next, Step, Rest

\* A step of a request moves that request alone, and leaves what was asked.
LEMMA StepMoves ==
  ASSUME TypesOnly, NEW r \in Requests, Step(r)
  PROVE  /\ req' = req /\ asked' = asked
         /\ pc[r] # "idle" /\ pc'[r] # "idle"
         /\ \A q \in Requests \ {r} : pc'[q] = pc[q]
<1>1. CASE JobStep(r)
  BY <1>1 DEF TypesOnly, JobStep, JobFindsTar, JobReadsMeta, JobIsRefused, JobLocks, JobSaves,
     JobDescribes, JobOpensTar, JobFillsTar, JobFailsToTar, JobThrows, JobUnlocks, JobClears,
     JobRenames, FailTmp, FailFinal, FailInfo, FailClear, Goto, local
<1>2. CASE RequestStep(r)
  BY <1>2 DEF TypesOnly, RequestStep, AskActive, AskTar, StartJob, ReadJson, OpenJson,
     WriteJson, DeleteTar, UploadFindsTar, UploadOpens, UploadFills, UploadFails, Goto, local
<1> QED
  BY <1>1, <1>2 DEF Step

\* A request that begins leaves the others, and is not yet at work.
LEMMA BeginMoves ==
  ASSUME TypesOnly, NEW r \in Requests, NEW ask \in Asks, ask[1] = r,
         Begin(r, ask[2], ask[3], ask[4])
  PROVE  /\ pc[r] = "idle" /\ pc'[r] \in {"askActive", "check", "remove"}
         /\ req'[r] = [kind |-> ask[2], name |-> ask[3], index |-> ask[4]]
         /\ ask[4] \in Indexes /\ asked'[r] = mem[ask[4]]
         /\ \A q \in Requests \ {r} :
              pc'[q] = pc[q] /\ req'[q] = req[q] /\ asked'[q] = asked[q]
<1>1. ask[2] \in {"create", "upload", "delete"} /\ ask[4] \in Indexes
  BY BackupAssumption
<1>2. pc' = [pc EXCEPT ![r] = CASE ask[2] = "create" -> "askActive"
                               [] ask[2] = "upload" -> "check"
                               [] ask[2] = "delete" -> "remove"]
  BY DEF Begin, Goto
<1>3. pc'[r] \in {"askActive", "check", "remove"}
  BY <1>1, <1>2 DEF TypesOnly
<1> QED
  BY <1>1, <1>2, <1>3 DEF Begin, TypesOnly

LEMMA StepKeepsAsked ==
  ASSUME BackupInv, [Next]_vars
  PROVE  Asked'
<1>1. TypesOnly /\ Asked
  BY TypeParts DEF BackupInv
<1>2. ASSUME NEW r \in Requests, Step(r)
      PROVE  Asked'
  BY <1>1, <1>2, StepMoves DEF Asked
<1>3. ASSUME NEW r \in Requests, NEW ask \in Asks, ask[1] = r,
             Begin(r, ask[2], ask[3], ask[4])
      PROVE  Asked'
  <2>1. /\ pc[r] = "idle" /\ pc'[r] \in {"askActive", "check", "remove"}
        /\ req'[r] = [kind |-> ask[2], name |-> ask[3], index |-> ask[4]]
        /\ ask[4] \in Indexes /\ asked'[r] = mem[ask[4]]
        /\ \A q \in Requests \ {r} :
             pc'[q] = pc[q] /\ req'[q] = req[q] /\ asked'[q] = asked[q]
    BY <1>1, <1>3, BeginMoves
  <2>2. ASSUME NEW q \in Requests, pc'[q] # "idle"
        PROVE  \E a \in Asks : a[1] = q /\ req'[q] = [kind |-> a[2], name |-> a[3], index |-> a[4]]
    <3>1. CASE q = r
      BY <1>3, <2>1, <3>1
    <3>2. CASE q # r
      <4>1. pc[q] # "idle" /\ req'[q] = req[q]
        BY <2>1, <2>2, <3>2
      <4> QED
        BY <1>1, <4>1 DEF Asked
    <3> QED
      BY <3>1, <3>2
  <2> QED
    BY <2>2 DEF Asked
<1>4. CASE Restart
  BY <1>1, <1>4 DEF Asked, Restart, local
<1>5. ASSUME UNCHANGED <<pc, req>>
      PROVE  Asked'
  BY <1>1, <1>5 DEF Asked
<1>6. ASSUME NEW x \in Indexes, BeginWrite(x) \/ EndWrite(x)
      PROVE  UNCHANGED <<pc, req>>
  BY <1>6 DEF BeginWrite, EndWrite, jobs, local
<1>7. CASE UNCHANGED vars
  BY <1>7, <1>5 DEF vars, jobs, local
<1> QED
  BY <1>2, <1>3, <1>4, <1>5, <1>6, <1>7 DEF Next, Rest

Locks == LockHeld /\ Quiet /\ SavedHeld /\ AskedReached

\* The steps that take the operation_mutex, work under it and release it.
LEMMA JobKeepsLocks ==
  ASSUME BackupInv, NEW r \in Requests, JobStep(r)
  PROVE  Locks'
<1>1. TypesOnly /\ Asked /\ LockHeld /\ Quiet /\ SavedHeld /\ AskedReached
  BY TypeParts DEF BackupInv
<1>2. /\ req' = req /\ asked' = asked
      /\ pc[r] # "idle" /\ pc'[r] # "idle"
      /\ \A q \in Requests \ {r} : pc'[q] = pc[q]
  BY <1>1, StepMoves DEF Step
<1>3. /\ req[r].index \in Indexes
      /\ \A q \in Requests : pc[q] \in Locked => req[q].index \in Indexes
  BY <1>1, <1>2, RequestHasParts
<1> DEFINE x == req[r].index
<1>4. CASE JobLocks(r)
  <2>1. /\ mutex[x] = NoRequest /\ mutex' = [mutex EXCEPT ![x] = r] /\ pc'[r] = "save"
        /\ UNCHANGED <<db, mem, image>>
    BY <1>1, <1>4 DEF JobLocks, Goto, TypesOnly
  <2>2. LockHeld'
    BY <1>1, <1>2, <1>3, <2>1, BackupAssumption DEF LockHeld, TypesOnly
  <2>3. Quiet'
    BY <1>1, <1>3, <2>1, BackupAssumption DEF Quiet, TypesOnly
  <2> QED
    BY <1>1, <1>2, <2>1, <2>2, <2>3 DEF Locks, SavedHeld, AskedReached
<1>5. CASE JobSaves(r)
  <2>1. /\ pc[r] = "save" /\ pc'[r] = "describe" /\ image' = [image EXCEPT ![x] = mem[x]]
        /\ UNCHANGED <<db, mem, mutex>>
    BY <1>1, <1>5 DEF JobSaves, Goto, TypesOnly
  <2>2. LockHeld'
    BY <1>1, <1>2, <2>1 DEF LockHeld
  <2>3. SavedHeld'
    BY <1>1, <1>2, <1>3, <2>1 DEF SavedHeld, TypesOnly, IndexCounts
  <2> QED
    BY <1>1, <1>2, <2>1, <2>2, <2>3 DEF Locks, Quiet, AskedReached
<1>6. CASE JobFailsToTar(r) \/ JobThrows(r) \/ JobUnlocks(r)
  <2>1. /\ pc[r] \in Locked /\ pc'[r] \in {"failTmp", "clear"}
        /\ mutex' = [mutex EXCEPT ![x] = NoRequest]
        /\ UNCHANGED <<db, mem, image>>
    BY <1>1, <1>6 DEF JobFailsToTar, JobThrows, JobUnlocks, Unlock, Goto, TypesOnly
  <2>2. LockHeld'
    BY <1>1, <1>2, <1>3, <2>1, BackupAssumption DEF LockHeld, TypesOnly
  <2>3. Quiet'
    BY <1>1, <1>3, <2>1, BackupAssumption DEF Quiet, LockHeld, TypesOnly
  <2> QED
    BY <1>1, <1>2, <2>1, <2>2, <2>3 DEF Locks, SavedHeld, AskedReached
<1>7. CASE JobDescribes(r) \/ JobOpensTar(r) \/ JobFillsTar(r)
  <2>1. /\ pc[r] \in Locked \ {"save"} /\ pc'[r] \in Locked
        /\ UNCHANGED <<db, mem, image, mutex>>
    BY <1>1, <1>7 DEF JobDescribes, JobOpensTar, JobFillsTar, Goto, TypesOnly, indices
  <2> QED
    BY <1>1, <1>2, <2>1 DEF Locks, LockHeld, Quiet, SavedHeld, AskedReached
<1>8. CASE \/ JobFindsTar(r) \/ JobReadsMeta(r) \/ JobIsRefused(r) \/ JobClears(r)
           \/ JobRenames(r) \/ FailTmp(r) \/ FailFinal(r) \/ FailInfo(r) \/ FailClear(r)
  <2>1. pc'[r] \notin Locked /\ UNCHANGED <<db, mem, image, mutex>>
    BY <1>1, <1>8 DEF JobFindsTar, JobReadsMeta, JobIsRefused, JobClears, JobRenames, FailTmp,
       FailFinal, FailInfo, FailClear, Goto, TypesOnly, world, indices
  <2> QED
    BY <1>1, <1>2, <2>1 DEF Locks, LockHeld, Quiet, SavedHeld, AskedReached
<1> QED
  BY <1>4, <1>5, <1>6, <1>7, <1>8 DEF JobStep

LEMMA StepKeepsLocks ==
  ASSUME BackupInv, [Next]_vars
  PROVE  Locks'
<1>1. TypesOnly /\ Asked /\ LockHeld /\ Quiet /\ SavedHeld /\ AskedReached
  BY TypeParts DEF BackupInv
<1>2. \A q \in Requests : pc[q] # "idle" => req[q].index \in Indexes
  BY <1>1, RequestHasParts
<1>3. ASSUME NEW x \in Indexes, BeginWrite(x)
      PROVE  Locks'
  <2>1. /\ mutex[x] = NoRequest /\ mutex' = [mutex EXCEPT ![x] = Writer]
        /\ db' = [db EXCEPT ![x] = @ + 1] /\ UNCHANGED <<pc, req, asked, mem, image>>
    BY <1>3 DEF BeginWrite, jobs, local
  <2>2. LockHeld'
    BY <1>1, <1>2, <2>1, BackupAssumption DEF LockHeld, TypesOnly
  <2>3. Quiet'
    BY <1>1, <2>1, BackupAssumption DEF Quiet, TypesOnly, IndexCounts
  <2> QED
    BY <1>1, <2>1, <2>2, <2>3 DEF Locks, SavedHeld, AskedReached
<1>4. ASSUME NEW x \in Indexes, EndWrite(x)
      PROVE  Locks'
  <2>1. /\ mutex[x] = Writer /\ mutex' = [mutex EXCEPT ![x] = NoRequest]
        /\ mem' = [mem EXCEPT ![x] = db[x]] /\ UNCHANGED <<pc, req, asked, db, image>>
    BY <1>4 DEF EndWrite, jobs, local
  <2>2. \A q \in Requests : pc[q] \in Locked => req[q].index # x
    BY <1>1, <2>1, BackupAssumption DEF LockHeld
  <2>3. LockHeld' /\ SavedHeld'
    BY <1>1, <1>2, <2>1, <2>2 DEF LockHeld, SavedHeld, TypesOnly, IndexCounts
  <2>4. Quiet'
    BY <1>1, <2>1, BackupAssumption DEF Quiet, TypesOnly, IndexCounts
  <2>5. AskedReached'
    BY <1>1, <1>2, <2>1, BackupAssumption DEF AskedReached, Quiet, TypesOnly, IndexCounts
  <2> QED
    BY <2>3, <2>4, <2>5 DEF Locks
<1>5. ASSUME NEW r \in Requests, NEW ask \in Asks, ask[1] = r,
             Begin(r, ask[2], ask[3], ask[4])
      PROVE  Locks'
  <2>1. UNCHANGED <<db, mem, image, mutex>>
    BY <1>5 DEF Begin, indices
  <2>2. /\ pc[r] = "idle" /\ pc'[r] \in {"askActive", "check", "remove"}
        /\ req'[r] = [kind |-> ask[2], name |-> ask[3], index |-> ask[4]]
        /\ ask[4] \in Indexes /\ asked'[r] = mem[ask[4]]
        /\ \A q \in Requests \ {r} :
             pc'[q] = pc[q] /\ req'[q] = req[q] /\ asked'[q] = asked[q]
    BY <1>1, <1>5, BeginMoves
  <2>3. AskedReached'
    <3>1. mem[ask[4]] \in Nat /\ req'[r].index = ask[4]
      BY <1>1, <2>2, BackupAssumption DEF TypesOnly, IndexCounts
    <3>2. asked'[r] <= mem'[req'[r].index]
      BY <2>1, <2>2, <3>1
    <3>3. \A q \in Requests \ {r} : pc'[q] # "idle" => asked'[q] <= mem'[req'[q].index]
      BY <1>1, <2>1, <2>2 DEF AskedReached
    <3> QED
      BY <3>2, <3>3 DEF AskedReached
  <2> QED
    BY <1>1, <2>1, <2>2, <2>3 DEF Locks, LockHeld, Quiet, SavedHeld
<1>6. ASSUME NEW r \in Requests, RequestStep(r)
      PROVE  Locks'
  <2>1. pc'[r] \notin Locked /\ UNCHANGED <<db, mem, image, mutex>>
    BY <1>1, <1>6 DEF RequestStep, AskActive, AskTar, StartJob, ReadJson, OpenJson,
       WriteJson, DeleteTar, UploadFindsTar, UploadOpens, UploadFills, UploadFails, Goto,
       TypesOnly, world, indices
  <2>2. /\ req' = req /\ asked' = asked /\ pc[r] # "idle"
        /\ \A q \in Requests \ {r} : pc'[q] = pc[q]
    BY <1>1, <1>6, StepMoves DEF Step
  <2> QED
    BY <1>1, <2>1, <2>2 DEF Locks, LockHeld, Quiet, SavedHeld, AskedReached
<1>7. CASE Restart
  <2>1. /\ \A q \in Requests : pc'[q] \in {"idle", "done"} /\ (pc'[q] # "idle" => pc[q] # "idle")
        /\ mem' = db /\ db' = db /\ req' = req /\ asked' = asked
    BY <1>1, <1>7 DEF Restart, local, TypesOnly
  <2>2. AskedReached'
    BY <1>1, <1>2, <2>1, BackupAssumption DEF AskedReached, Quiet, TypesOnly, IndexCounts
  <2>3. Quiet'
    BY <1>1, <2>1, BackupAssumption DEF Quiet, TypesOnly, IndexCounts
  <2> QED
    BY <2>1, <2>2, <2>3 DEF Locks, LockHeld, SavedHeld
<1>8. CASE UNCHANGED vars
  BY <1>1, <1>8 DEF vars, jobs, local, world, indices, Locks, LockHeld, Quiet, SavedHeld,
     AskedReached
<1> QED
  BY <1>3, <1>4, <1>5, <1>6, <1>7, <1>8, JobKeepsLocks DEF Next, Step, Rest

\* Who writes a file has begun, and a finished tar stays what it was.
LEMMA StepKeepsExact ==
  ASSUME BackupInv, [Next]_vars
  PROVE  WritersBegun' /\ TarExact'
<1>1. /\ TypesOnly /\ Asked /\ UploadsUpload /\ PathsOpened /\ LockHeld /\ Quiet
      /\ SavedHeld /\ AskedReached /\ WritersBegun /\ TarExact
  BY TypeParts DEF BackupInv
\* Whoever wrote a finished tar asked what it asked, and has begun.
<1>2. \A w \in Requests : pc[w] # "idle" =>
        pc'[w] # "idle" /\ req'[w] = req[w] /\ asked'[w] = asked[w]
  <2>1. ASSUME NEW r \in Requests, Step(r), NEW w \in Requests, pc[w] # "idle"
        PROVE  pc'[w] # "idle" /\ req'[w] = req[w] /\ asked'[w] = asked[w]
    BY <1>1, <2>1, StepMoves
  <2>2. ASSUME NEW r \in Requests, NEW ask \in Asks, ask[1] = r,
               Begin(r, ask[2], ask[3], ask[4]), NEW w \in Requests, pc[w] # "idle"
        PROVE  pc'[w] # "idle" /\ req'[w] = req[w] /\ asked'[w] = asked[w]
    <3>1. pc[r] = "idle" /\ \A q \in Requests \ {r} :
            pc'[q] = pc[q] /\ req'[q] = req[q] /\ asked'[q] = asked[q]
      BY <1>1, <2>2, BeginMoves
    <3> QED
      BY <2>2, <3>1
  <2>3. CASE Restart
    BY <1>1, <2>3 DEF Restart, local
  <2>4. ASSUME NEW x \in Indexes, BeginWrite(x) \/ EndWrite(x)
        PROVE  UNCHANGED <<pc, req, asked>>
    BY <2>4 DEF BeginWrite, EndWrite, jobs, local
  <2>5. ASSUME UNCHANGED vars
        PROVE  UNCHANGED <<pc, req, asked>>
    BY <2>5 DEF vars, jobs, local
  <2> QED
    BY <2>1, <2>2, <2>3, <2>4, <2>5 DEF Next, Rest
<1>3. ASSUME NEW r \in Requests, JobFillsTar(r)
      PROVE  WritersBegun' /\ TarExact'
  <2> DEFINE x == req[r].index
             mine == [state |-> "whole", by |-> r, db |-> db[x], image |-> image[x],
                      info |-> sidecar[x]]
             c == Filled(r, mine)
  <2>1. pc[r] = "fillTar" /\ file' = [file EXCEPT ![out[r]] = c]
    BY <1>3 DEF JobFillsTar
  <2>2. x \in Indexes
    BY <1>1, <2>1, RequestHasParts
  <2>3. mutex[x] = r /\ db[x] = image[x] /\ asked[r] <= image[x]
    <3>1. mutex[x] = r /\ image[x] = mem[x] /\ asked[r] <= mem[x]
      BY <1>1, <2>1, <2>2 DEF LockHeld, SavedHeld, AskedReached
    <3>2. mutex[x] # Writer
      BY <3>1, BackupAssumption
    <3> QED
      BY <1>1, <2>2, <3>1, <3>2 DEF Quiet
  <2>4. c.state = "whole" => c = mine
    BY DEF Filled, Empty
  <2>5. asked'[r] = asked[r] /\ pc'[r] # "idle"
    BY <1>2, <2>1
  <2>6. c.state = "whole" =>
          c.by = r /\ c.db = c.image /\ c.image >= asked'[r]
    <3>1. asked[r] \in Nat /\ image[x] \in Nat
      BY <1>1, <2>2, BackupAssumption DEF TypesOnly, IndexCounts
    <3> QED
      BY <2>3, <2>4, <2>5, <3>1
  <2> HIDE DEF c
  <2>7. \A f \in Requests : file'[f] = c \/ file'[f] = file[f]
    BY <1>1, <2>1 DEF TypesOnly
  <2>8. WritersBegun'
    BY <1>1, <1>2, <2>5, <2>6, <2>7 DEF WritersBegun
  <2>9. TarExact'
    <3> SUFFICES ASSUME NEW f \in Requests, file'[f].state = "whole",
                        (MadeByJob(file[f].by))'
                 PROVE  file'[f].db = file'[f].image
                        /\ file'[f].image >= asked'[file'[f].by]
      BY DEF TarExact
    <3>1. CASE file'[f] = c
      BY <2>6, <3>1
    <3>2. CASE file'[f] = file[f]
      <4>1. file[f].by \in Requests /\ pc[file[f].by] # "idle"
        BY <1>1, <3>2 DEF WritersBegun
      <4> QED
        BY <1>1, <1>2, <3>2, <4>1 DEF TarExact, MadeByJob
    <3> QED
      BY <2>7, <3>1, <3>2
  <2> QED
    BY <2>8, <2>9
<1>4. ASSUME NEW r \in Requests, UploadFills(r)
      PROVE  WritersBegun' /\ TarExact'
  <2> DEFINE mine == [Empty EXCEPT !.state = "whole", !.by = r]
             c == Filled(r, mine)
  <2>1. pc[r] = "fill" /\ file' = [file EXCEPT ![out[r]] = c]
    BY <1>4 DEF UploadFills
  <2>2. c.state = "whole" => c.by = r /\ c.db = 0 /\ c.image = 0
    BY DEF Filled, Empty
  <2> HIDE DEF c
  <2>3. \A f \in Requests : file'[f] = c \/ file'[f] = file[f]
    BY <1>1, <2>1 DEF TypesOnly
  <2>4. WritersBegun'
    BY <1>1, <1>2, <2>1, <2>2, <2>3 DEF WritersBegun
  <2>5. req'[r].kind = "upload"
    BY <1>1, <1>2, <2>1 DEF UploadsUpload
  <2>6. TarExact'
    <3> SUFFICES ASSUME NEW f \in Requests, file'[f].state = "whole",
                        (MadeByJob(file[f].by))'
                 PROVE  file'[f].db = file'[f].image
                        /\ file'[f].image >= asked'[file'[f].by]
      BY DEF TarExact
    <3>1. CASE file'[f] = c
      BY <2>2, <2>5, <3>1 DEF MadeByJob
    <3>2. CASE file'[f] = file[f]
      <4>1. file[f].by \in Requests /\ pc[file[f].by] # "idle"
        BY <1>1, <3>2 DEF WritersBegun
      <4> QED
        BY <1>1, <1>2, <3>2, <4>1 DEF TarExact, MadeByJob
    <3> QED
      BY <2>3, <3>1, <3>2
  <2> QED
    BY <2>4, <2>6
<1>5. ASSUME \A f \in Requests : file'[f] = file[f] \/ file'[f].state = "partial"
      PROVE  WritersBegun' /\ TarExact'
  <2>1. \A f \in Requests : file'[f].state = "whole" =>
          file'[f] = file[f] /\ file[f].by \in Requests /\ pc[file[f].by] # "idle"
    BY <1>1, <1>5 DEF WritersBegun
  <2>2. WritersBegun'
    BY <1>2, <2>1 DEF WritersBegun
  <2>3. TarExact'
    BY <1>1, <1>2, <2>1 DEF TarExact, MadeByJob
  <2> QED
    BY <2>2, <2>3
<1>6. ASSUME NEW r \in Requests, JobOpensTar(r) \/ UploadOpens(r)
      PROVE  \A f \in Requests : file'[f] = file[f] \/ file'[f].state = "partial"
  <2>1. \E g : file' = [file EXCEPT ![g] = Empty]
    BY <1>6 DEF JobOpensTar, UploadOpens
  <2> QED
    BY <1>1, <2>1 DEF TypesOnly, Empty
<1>7. ASSUME NEW r \in Requests, JobStep(r), ~JobOpensTar(r), ~JobFillsTar(r)
      PROVE  UNCHANGED file
  BY <1>7 DEF JobStep, JobFindsTar, JobReadsMeta, JobIsRefused, JobLocks, JobSaves,
     JobDescribes, JobFailsToTar, JobThrows, JobUnlocks, JobClears, JobRenames, FailTmp, FailFinal,
     FailInfo, FailClear, world, files
<1>8. ASSUME NEW r \in Requests, RequestStep(r), ~UploadOpens(r), ~UploadFills(r)
      PROVE  UNCHANGED file
  BY <1>8 DEF RequestStep, AskActive, AskTar, StartJob, ReadJson, OpenJson, WriteJson,
     DeleteTar, UploadFindsTar, UploadFails, world, files
<1>9. ASSUME NEW r \in Requests, Step(r)
      PROVE  WritersBegun' /\ TarExact'
  BY <1>3, <1>4, <1>5, <1>6, <1>7, <1>8, <1>9 DEF Step
<1>10. ASSUME ~(\E r \in Requests : Step(r))
       PROVE  UNCHANGED file
  BY <1>10 DEF Next, BeginWrite, EndWrite, Begin, Restart, Rest, vars, world, files
<1> QED
  BY <1>5, <1>9, <1>10

\* The kind of a request that uploads.
LEMMA StepKeepsUploads ==
  ASSUME BackupInv, [Next]_vars
  PROVE  UploadsUpload'
<1>1. TypesOnly /\ UploadsUpload
  BY TypeParts DEF BackupInv
<1>2. ASSUME NEW r \in Requests, Step(r)
      PROVE  UploadsUpload'
  <2>1. /\ req' = req /\ pc[r] # "idle"
        /\ \A q \in Requests \ {r} : pc'[q] = pc[q]
    BY <1>1, <1>2, StepMoves
  <2>2. pc'[r] \in {"check", "open", "fill"} => pc[r] \in {"check", "open", "fill"}
    <3>1. CASE JobStep(r)
      BY <1>1, <3>1 DEF TypesOnly, JobStep, JobFindsTar, JobReadsMeta, JobIsRefused, JobLocks,
         JobSaves, JobDescribes, JobOpensTar, JobFillsTar, JobFailsToTar, JobThrows, JobUnlocks,
         JobClears, JobRenames, FailTmp, FailFinal, FailInfo, FailClear, Goto
    <3>2. CASE RequestStep(r)
      BY <1>1, <3>2 DEF TypesOnly, RequestStep, AskActive, AskTar, StartJob, ReadJson,
         OpenJson, WriteJson, DeleteTar, UploadFindsTar, UploadOpens, UploadFills,
         UploadFails, Goto
    <3> QED
      BY <1>2, <3>1, <3>2 DEF Step
  <2> QED
    BY <1>1, <2>1, <2>2 DEF UploadsUpload
<1>3. ASSUME NEW r \in Requests, NEW ask \in Asks, ask[1] = r,
             Begin(r, ask[2], ask[3], ask[4])
      PROVE  UploadsUpload'
  <2>1. \A q \in Requests \ {r} : pc'[q] = pc[q] /\ req'[q] = req[q]
    BY <1>1, <1>3, BeginMoves
  <2>2. /\ ask[2] \in {"create", "upload", "delete"}
        /\ pc' = [pc EXCEPT ![r] = CASE ask[2] = "create" -> "askActive"
                                    [] ask[2] = "upload" -> "check"
                                    [] ask[2] = "delete" -> "remove"]
        /\ req'[r].kind = ask[2]
    BY <1>1, <1>3, BackupAssumption DEF Begin, Goto, TypesOnly
  <2>3. pc'[r] \in {"check", "open", "fill"} => req'[r].kind = "upload"
    BY <1>1, <2>2 DEF TypesOnly
  <2> QED
    BY <1>1, <2>1, <2>3 DEF UploadsUpload
<1>4. CASE Restart
  BY <1>1, <1>4 DEF UploadsUpload, Restart, local, TypesOnly
<1>5. ASSUME UNCHANGED <<pc, req>>
      PROVE  UploadsUpload'
  BY <1>1, <1>5 DEF UploadsUpload
<1>6. ASSUME NEW x \in Indexes, BeginWrite(x) \/ EndWrite(x)
      PROVE  UNCHANGED <<pc, req>>
  BY <1>6 DEF BeginWrite, EndWrite, jobs, local
<1>7. CASE UNCHANGED vars
  BY <1>7, <1>5 DEF vars, jobs, local
<1> QED
  BY <1>2, <1>3, <1>4, <1>5, <1>6, <1>7 DEF Next, Rest

\* Where a file gets a second name: nowhere.
LEMMA StepKeepsPaths ==
  ASSUME BackupInv, [Next]_vars
  PROVE  PathsOpened' /\ PathsDistinct'
<1>1. TypesOnly /\ Asked /\ PathsOpened /\ PathsDistinct
  BY TypeParts DEF BackupInv
<1>2. /\ \A n \in Names : tmp[n] \in Requests \cup {NoRequest}
      /\ \A n \in Names : final[n] \in Requests \cup {NoRequest}
  BY <1>1 DEF TypesOnly, Paths
\* Only the steps that open a file change out, or lead to writing.
<1>3. ASSUME NEW r \in Requests, Step(r), ~JobOpensTar(r), ~UploadOpens(r)
      PROVE  /\ out' = out /\ pc'[r] \notin {"fillTar", "fill"}
             /\ pc'[r] \notin Opener => pc[r] \notin Opener
  <2>1. CASE JobStep(r)
    BY <1>1, <1>3, <2>1 DEF TypesOnly, JobStep, JobFindsTar, JobReadsMeta, JobIsRefused,
       JobLocks, JobSaves, JobDescribes, JobFillsTar, JobFailsToTar, JobThrows, JobUnlocks,
       JobClears, JobRenames, FailTmp, FailFinal, FailInfo, FailClear, Goto, local, Opener
  <2>2. CASE RequestStep(r)
    BY <1>1, <1>3, <2>2 DEF TypesOnly, RequestStep, AskActive, AskTar, StartJob, ReadJson,
       OpenJson, WriteJson, DeleteTar, UploadFindsTar, UploadFills, UploadFails, Goto,
       local, Opener
  <2> QED
    BY <1>3, <2>1, <2>2 DEF Step
<1>4. ASSUME NEW r \in Requests, Step(r), ~JobOpensTar(r), ~UploadOpens(r)
      PROVE  /\ out' = out
             /\ \A q \in Requests : pc'[q] \notin Opener => out'[q] = NoRequest
             /\ \A q \in Requests : pc'[q] \in {"fillTar", "fill"} => out'[q] # NoRequest
  <2>1. \A q \in Requests \ {r} : pc'[q] = pc[q]
    BY <1>1, <1>4, StepMoves
  <2> QED
    BY <1>1, <1>3, <1>4, <2>1 DEF PathsOpened
\* A step that takes no path and gives none keeps them.
<1>5. ASSUME out' = out,
             \A n \in Names : tmp'[n] = tmp[n] \/ tmp'[n] = NoRequest,
             \A n \in Names : final'[n] = final[n] \/ final'[n] = NoRequest
      PROVE  /\ PathsDistinct'
             /\ \A n \in Names : /\ tmp'[n] # NoRequest => out'[tmp'[n]] = tmp'[n]
                                 /\ final'[n] # NoRequest => out'[final'[n]] = final'[n]
  BY <1>1, <1>5 DEF PathsOpened, PathsDistinct
<1>6. ASSUME NEW r \in Requests, JobRenames(r)
      PROVE  /\ PathsDistinct'
             /\ \A n \in Names : /\ tmp'[n] # NoRequest => out'[tmp'[n]] = tmp'[n]
                                 /\ final'[n] # NoRequest => out'[final'[n]] = final'[n]
  <2> DEFINE m == req[r].name
  <2>1. m \in Names /\ out' = out
    BY <1>1, <1>6, RequestHasParts DEF JobRenames, local
  <2>2. CASE tmp[m] = NoRequest
    BY <1>5, <1>6, <2>1, <2>2 DEF JobRenames
  <2>3. CASE tmp[m] # NoRequest
    <3>1. /\ final' = [final EXCEPT ![m] = tmp[m]]
          /\ tmp' = [tmp EXCEPT ![m] = NoRequest]
      BY <1>6, <2>3 DEF JobRenames
    <3>2. /\ final'[m] = tmp[m] /\ tmp'[m] = NoRequest
          /\ \A n \in Names \ {m} : final'[n] = final[n] /\ tmp'[n] = tmp[n]
      BY <1>1, <2>1, <3>1 DEF TypesOnly, Paths
    <3>3. PathsDistinct'
      BY <1>1, <2>1, <2>3, <3>2 DEF PathsDistinct
    <3> QED
      BY <1>1, <2>1, <3>2, <3>3 DEF PathsOpened
  <2> QED
    BY <2>2, <2>3
\* Opening a path of the one kind or the other.
<1>7. ASSUME NEW r \in Requests, NEW m \in Names, NEW f, out[r] = NoRequest,
             out' = [out EXCEPT ![r] = f], f \in Requests,
             \/ f = Opened(tmp[m], r) /\ tmp' = [tmp EXCEPT ![m] = f] /\ final' = final
             \/ f = Opened(final[m], r) /\ final' = [final EXCEPT ![m] = f] /\ tmp' = tmp
      PROVE  /\ PathsDistinct'
             /\ \A n \in Names : /\ tmp'[n] # NoRequest => out'[tmp'[n]] = tmp'[n]
                                 /\ final'[n] # NoRequest => out'[final'[n]] = final'[n]
  <2>1. \A n \in Names : tmp[n] # r /\ final[n] # r
    BY <1>1, <1>7, BackupAssumption DEF PathsOpened
  <2>2. out'[r] = f /\ \A q \in Requests \ {r} : out'[q] = out[q]
    BY <1>1, <1>7 DEF TypesOnly
  <2>3. CASE f = Opened(tmp[m], r) /\ tmp' = [tmp EXCEPT ![m] = f] /\ final' = final
    <3>1. tmp'[m] = f /\ \A n \in Names \ {m} : tmp'[n] = tmp[n]
      BY <1>1, <2>3 DEF TypesOnly, Paths
    <3>2. (tmp[m] = NoRequest /\ f = r) \/ (tmp[m] # NoRequest /\ f = tmp[m])
      BY <2>3 DEF Opened
    <3>3. PathsDistinct'
      BY <1>1, <2>1, <2>3, <3>1, <3>2 DEF PathsDistinct
    <3>4. \A n \in Names : tmp'[n] # NoRequest => out'[tmp'[n]] = tmp'[n]
      BY <1>1, <1>2, <2>1, <2>2, <3>1, <3>2 DEF PathsOpened
    <3>5. \A n \in Names : final'[n] # NoRequest => out'[final'[n]] = final'[n]
      BY <1>1, <1>2, <2>1, <2>2, <2>3 DEF PathsOpened
    <3> QED
      BY <3>3, <3>4, <3>5
  <2>4. CASE f = Opened(final[m], r) /\ final' = [final EXCEPT ![m] = f] /\ tmp' = tmp
    <3>1. final'[m] = f /\ \A n \in Names \ {m} : final'[n] = final[n]
      BY <1>1, <2>4 DEF TypesOnly, Paths
    <3>2. (final[m] = NoRequest /\ f = r) \/ (final[m] # NoRequest /\ f = final[m])
      BY <2>4 DEF Opened
    <3>3. PathsDistinct'
      BY <1>1, <2>1, <2>4, <3>1, <3>2 DEF PathsDistinct
    <3>4. \A n \in Names : final'[n] # NoRequest => out'[final'[n]] = final'[n]
      BY <1>1, <1>2, <2>1, <2>2, <3>1, <3>2 DEF PathsOpened
    <3>5. \A n \in Names : tmp'[n] # NoRequest => out'[tmp'[n]] = tmp'[n]
      BY <1>1, <1>2, <2>1, <2>2, <2>4 DEF PathsOpened
    <3> QED
      BY <3>3, <3>4, <3>5
  <2> QED
    BY <1>7, <2>3, <2>4
<1>8. ASSUME NEW r \in Requests, JobOpensTar(r) \/ UploadOpens(r)
      PROVE  PathsOpened' /\ PathsDistinct'
  <2> DEFINE m == req[r].name
  <2>1. /\ pc[r] \notin Opener /\ pc[r] # "idle"
        /\ pc'[r] \in {"fillTar", "fill"}
        /\ \A q \in Requests \ {r} : pc'[q] = pc[q]
    BY <1>1, <1>8 DEF JobOpensTar, UploadOpens, Goto, Opener, TypesOnly
  <2>2. m \in Names /\ out[r] = NoRequest
    BY <1>1, <2>1, RequestHasParts DEF PathsOpened
  <2>3. PICK f :
          /\ out' = [out EXCEPT ![r] = f]
          /\ \/ f = Opened(tmp[m], r) /\ tmp' = [tmp EXCEPT ![m] = f] /\ final' = final
             \/ f = Opened(final[m], r) /\ final' = [final EXCEPT ![m] = f] /\ tmp' = tmp
    BY <1>8 DEF JobOpensTar, UploadOpens
  <2>4. f \in Requests
    BY <1>2, <2>2, <2>3 DEF Opened
  <2>5. /\ PathsDistinct'
        /\ \A n \in Names : /\ tmp'[n] # NoRequest => out'[tmp'[n]] = tmp'[n]
                            /\ final'[n] # NoRequest => out'[final'[n]] = final'[n]
    BY <1>7, <2>2, <2>3, <2>4
  <2>6. out'[r] = f /\ \A q \in Requests \ {r} : out'[q] = out[q]
    BY <1>1, <2>3 DEF TypesOnly
  <2>7. /\ \A q \in Requests : pc'[q] \notin Opener => out'[q] = NoRequest
        /\ \A q \in Requests : pc'[q] \in {"fillTar", "fill"} => out'[q] # NoRequest
    BY <1>1, <2>1, <2>4, <2>6, BackupAssumption DEF PathsOpened, Opener
  <2> QED
    BY <2>5, <2>7 DEF PathsOpened
<1>9. ASSUME NEW r \in Requests, Step(r), ~JobOpensTar(r), ~UploadOpens(r), ~JobRenames(r)
      PROVE  /\ \A n \in Names : tmp'[n] = tmp[n] \/ tmp'[n] = NoRequest
             /\ \A n \in Names : final'[n] = final[n] \/ final'[n] = NoRequest
  <2>1. CASE JobStep(r)
    BY <1>1, <1>9, <2>1 DEF TypesOnly, Paths, JobStep, JobFindsTar, JobReadsMeta,
       JobIsRefused, JobLocks, JobSaves, JobDescribes, JobFillsTar, JobFailsToTar, JobThrows,
       JobUnlocks, JobClears, FailTmp, FailFinal, FailInfo, FailClear, world, files
  <2>2. CASE RequestStep(r)
    BY <1>1, <1>9, <2>2 DEF TypesOnly, Paths, RequestStep, AskActive, AskTar, StartJob,
       ReadJson, OpenJson, WriteJson, DeleteTar, UploadFindsTar, UploadFills, UploadFails,
       world, files
  <2> QED
    BY <1>9, <2>1, <2>2 DEF Step
<1>10. ASSUME NEW r \in Requests, Step(r)
       PROVE  PathsOpened' /\ PathsDistinct'
  BY <1>4, <1>5, <1>6, <1>8, <1>9, <1>10 DEF PathsOpened
<1>11. ASSUME NEW r \in Requests, NEW ask \in Asks, ask[1] = r,
              Begin(r, ask[2], ask[3], ask[4])
       PROVE  PathsOpened' /\ PathsDistinct'
  <2>1. /\ pc[r] = "idle" /\ pc'[r] \in {"askActive", "check", "remove"}
        /\ \A q \in Requests \ {r} : pc'[q] = pc[q]
    BY <1>1, <1>11, BeginMoves
  <2>2. UNCHANGED <<out, tmp, final>>
    BY <1>11 DEF Begin, files
  <2> QED
    BY <1>1, <1>5, <2>1, <2>2 DEF PathsOpened, Opener
<1>12. CASE Restart
  <2>1. /\ out' = out /\ final' = final /\ \A n \in Names : tmp'[n] = NoRequest
        /\ \A q \in Requests : pc'[q] = "done" \/ (pc'[q] = "idle" /\ pc[q] = "idle")
    BY <1>12 DEF Restart, local
  <2> QED
    BY <1>1, <1>5, <2>1 DEF PathsOpened, Opener
<1>13. ASSUME UNCHANGED <<pc, out, tmp, final>>
       PROVE  PathsOpened' /\ PathsDistinct'
  BY <1>1, <1>13 DEF PathsOpened, PathsDistinct
<1>14. ASSUME NEW x \in Indexes, BeginWrite(x) \/ EndWrite(x)
       PROVE  UNCHANGED <<pc, out, tmp, final>>
  BY <1>14 DEF BeginWrite, EndWrite, jobs, local, files
<1>15. CASE UNCHANGED vars
  BY <1>13, <1>15 DEF vars, jobs, local, world, files
<1> QED
  BY <1>10, <1>11, <1>12, <1>13, <1>14, <1>15 DEF Next, Rest

-----------------------------------------------------------------------------
(***************************************************************************)
(* What jobs leave behind, and jobs Apart.                                 *)
(***************************************************************************)

\* A request that has come stays what it is.
LEMMA BegunStays ==
  ASSUME BackupInv, [Next]_vars
  PROVE  \A w \in Requests : pc[w] # "idle" => pc'[w] # "idle" /\ req'[w] = req[w]
<1>1. TypesOnly
  BY TypeParts DEF BackupInv
<1>2. ASSUME NEW r \in Requests, Step(r), NEW w \in Requests, pc[w] # "idle"
      PROVE  pc'[w] # "idle" /\ req'[w] = req[w]
  BY <1>1, <1>2, StepMoves
<1>3. ASSUME NEW r \in Requests, NEW ask \in Asks, ask[1] = r,
             Begin(r, ask[2], ask[3], ask[4]), NEW w \in Requests, pc[w] # "idle"
      PROVE  pc'[w] # "idle" /\ req'[w] = req[w]
  <2>1. pc[r] = "idle" /\ \A q \in Requests \ {r} : pc'[q] = pc[q] /\ req'[q] = req[q]
    BY <1>1, <1>3, BeginMoves
  <2> QED
    BY <1>3, <2>1
<1>4. CASE Restart
  BY <1>1, <1>4 DEF Restart, local
<1>5. ASSUME NEW x \in Indexes, BeginWrite(x) \/ EndWrite(x)
      PROVE  UNCHANGED <<pc, req>>
  BY <1>5 DEF BeginWrite, EndWrite, jobs, local
<1>6. ASSUME UNCHANGED vars
      PROVE  UNCHANGED <<pc, req>>
  BY <1>6 DEF vars, jobs, local
<1> QED
  BY <1>2, <1>3, <1>4, <1>5, <1>6 DEF Next, Rest

\* A job's stages are reached by jobs only.
LEMMA StepKeepsKinds ==
  ASSUME BackupInv, [Next]_vars
  PROVE  KindsOK'
<1> DEFINE JobStages == Running \cup {"askActive", "askTar", "start", "rename"}
<1>1. TypesOnly /\ KindsOK
  BY TypeParts DEF BackupInv
<1>2. ASSUME NEW r \in Requests, Step(r)
      PROVE  KindsOK'
  <2>1. req' = req /\ pc'[r] # "idle" /\ \A q \in Requests \ {r} : pc'[q] = pc[q]
    BY <1>1, <1>2, StepMoves
  <2>2. pc'[r] \in JobStages => pc[r] \in JobStages
    <3>1. CASE JobStep(r)
      BY <1>1, <3>1 DEF TypesOnly, JobStep, JobFindsTar, JobReadsMeta, JobIsRefused, JobLocks,
         JobSaves, JobDescribes, JobOpensTar, JobFillsTar, JobFailsToTar, JobThrows, JobUnlocks,
         JobClears, JobRenames, FailTmp, FailFinal, FailInfo, FailClear, Goto
    <3>2. CASE RequestStep(r)
      BY <1>1, <3>2 DEF TypesOnly, RequestStep, AskActive, AskTar, StartJob, ReadJson,
         OpenJson, WriteJson, DeleteTar, UploadFindsTar, UploadOpens, UploadFills,
         UploadFails, Goto
    <3> QED
      BY <1>2, <3>1, <3>2 DEF Step
  <2> QED
    BY <1>1, <2>1, <2>2 DEF KindsOK, MadeByJob
<1>3. ASSUME NEW r \in Requests, NEW ask \in Asks, ask[1] = r,
             Begin(r, ask[2], ask[3], ask[4])
      PROVE  KindsOK'
  <2>1. /\ pc[r] = "idle" /\ pc'[r] \in {"askActive", "check", "remove"}
        /\ \A q \in Requests \ {r} : pc'[q] = pc[q] /\ req'[q] = req[q]
    BY <1>1, <1>3, BeginMoves
  <2>2. /\ ask[2] \in {"create", "upload", "delete"}
        /\ pc' = [pc EXCEPT ![r] = CASE ask[2] = "create" -> "askActive"
                                    [] ask[2] = "upload" -> "check"
                                    [] ask[2] = "delete" -> "remove"]
        /\ req'[r].kind = ask[2]
    BY <1>1, <1>3, BackupAssumption DEF Begin, Goto, TypesOnly
  <2>3. pc'[r] = "askActive" => req'[r].kind = "create"
    BY <1>1, <2>2 DEF TypesOnly
  <2> QED
    BY <1>1, <2>1, <2>3 DEF KindsOK, MadeByJob
<1>4. CASE Restart
  BY <1>1, <1>4 DEF KindsOK, MadeByJob, Restart, local, TypesOnly
<1>5. ASSUME UNCHANGED <<pc, req>>
      PROVE  KindsOK'
  BY <1>1, <1>5 DEF KindsOK, MadeByJob
<1>6. ASSUME NEW x \in Indexes, BeginWrite(x) \/ EndWrite(x)
      PROVE  UNCHANGED <<pc, req>>
  BY <1>6 DEF BeginWrite, EndWrite, jobs, local
<1>7. CASE UNCHANGED vars
  BY <1>7, <1>5 DEF vars, jobs, local
<1> QED
  BY <1>2, <1>3, <1>4, <1>5, <1>6, <1>7 DEF Next, Rest

\* Stages of a job whose temporary tar, or whose description, may be there.
TmpStages == {"fillTar", "undescribe", "clear", "rename", "failTmp"}

InfoStages == {"openTar", "fillTar", "undescribe", "failTmp", "failFinal", "failInfo"}

\* What a step of r does to what jobs leave: whoever makes it may take it away later, and
\* it is gone once r is past that.
Tidies(r) ==
  /\ active' = active \/ active' = NoActive \/ pc'[r] \in Running
  /\ pc[r] \in Running /\ pc'[r] \notin Running => active' = NoActive
  /\ \A n \in Names :
       tmp'[n] = tmp[n] \/ tmp'[n] = NoRequest \/ (n = req[r].name /\ pc'[r] \in TmpStages)
  /\ pc[r] \in TmpStages /\ pc'[r] \notin TmpStages => tmp'[req[r].name] = NoRequest
  /\ \A x \in Indexes :
       \/ sidecar'[x] = sidecar[x] \/ ~sidecar'[x].known
       \/ x = req[r].index /\ pc'[r] \in InfoStages
  /\ pc[r] \in InfoStages /\ pc'[r] \notin InfoStages => ~sidecar'[req[r].index].known
  /\ restarts' = restarts

LEMMA StepTidies ==
  ASSUME TypesOnly, Asked, NEW r \in Requests, Step(r)
  PROVE  Tidies(r)
<1> USE DEF TypesOnly, Paths, Tidies, TmpStages, InfoStages, Goto
<1>1. req[r].name \in Names /\ req[r].index \in Indexes
  BY StepMoves, RequestHasParts
<1>2. CASE JobFindsTar(r) \/ JobReadsMeta(r) \/ JobIsRefused(r) \/ JobLocks(r) \/ JobSaves(r)
           \/ JobThrows(r) \/ JobFillsTar(r)
  BY <1>2 DEF JobFindsTar, JobReadsMeta, JobIsRefused, JobLocks, JobSaves, JobThrows, JobFillsTar,
     world, files, indices
<1>3. CASE JobDescribes(r) \/ JobOpensTar(r)
  BY <1>1, <1>3 DEF JobDescribes, JobOpensTar, files, indices
<1>4. CASE JobFailsToTar(r) \/ JobUnlocks(r) \/ FailInfo(r)
  BY <1>1, <1>4 DEF JobFailsToTar, JobUnlocks, FailInfo, NoInfo, files, indices
<1>5. CASE JobClears(r) \/ FailClear(r)
  BY <1>5 DEF JobClears, FailClear, files, indices
<1>6. CASE JobRenames(r)
  BY <1>1, <1>6 DEF JobRenames, indices
<1>7. CASE FailTmp(r) \/ FailFinal(r)
  BY <1>1, <1>7 DEF FailTmp, FailFinal, indices
<1>8. CASE RequestStep(r)
  BY <1>8 DEF RequestStep, AskActive, AskTar, StartJob, ReadJson, OpenJson, WriteJson, DeleteTar,
     UploadFindsTar, UploadOpens, UploadFills, UploadFails, world, files, indices
<1> QED
  BY <1>2, <1>3, <1>4, <1>5, <1>6, <1>7, <1>8 DEF Step, JobStep

\* So whoever has something to take away has it still, or it is gone.
LEMMA StepKeepsTidied ==
  ASSUME BackupInv, [Next]_vars
  PROVE  Tidied'
<1>1. TypesOnly /\ Asked /\ Tidied
  BY TypeParts DEF BackupInv
<1>2. ASSUME NEW r \in Requests, Step(r)
      PROVE  Tidied'
  <2>1. Tidies(r) /\ req' = req /\ \A q \in Requests \ {r} : pc'[q] = pc[q]
    BY <1>1, <1>2, StepTidies, StepMoves
  <2>2. active' # NoActive => \E q \in Requests : pc'[q] \in Running
    BY <1>1, <2>1 DEF Tidies, Tidied
  <2>3. ASSUME NEW n \in Names, tmp'[n] # NoRequest
        PROVE  \E q \in Requests : req'[q].name = n /\ pc'[q] \in TmpStages
    <3>1. CASE n = req[r].name /\ pc'[r] \in TmpStages
      BY <2>1, <3>1
    <3>2. CASE ~(n = req[r].name /\ pc'[r] \in TmpStages)
      <4>1. tmp[n] # NoRequest
        BY <2>1, <2>3, <3>2 DEF Tidies
      <4>2. PICK q \in Requests : req[q].name = n /\ pc[q] \in TmpStages
        BY <1>1, <4>1 DEF Tidied, TmpStages
      <4> QED
        BY <2>1, <2>3, <3>2, <4>2 DEF Tidies
    <3> QED
      BY <3>1, <3>2
  <2>4. ASSUME NEW x \in Indexes, restarts' = 0, sidecar'[x].known
        PROVE  \E q \in Requests : req'[q].index = x /\ pc'[q] \in InfoStages
    <3>1. CASE x = req[r].index /\ pc'[r] \in InfoStages
      BY <2>1, <3>1
    <3>2. CASE ~(x = req[r].index /\ pc'[r] \in InfoStages)
      <4>1. sidecar[x].known /\ restarts = 0
        BY <2>1, <2>4, <3>2 DEF Tidies
      <4>2. PICK q \in Requests : req[q].index = x /\ pc[q] \in InfoStages
        BY <1>1, <4>1 DEF Tidied, InfoStages
      <4> QED
        BY <2>1, <2>4, <3>2, <4>2 DEF Tidies
    <3> QED
      BY <3>1, <3>2
  <2> QED
    BY <2>2, <2>3, <2>4 DEF Tidied, TmpStages, InfoStages
<1>3. ASSUME NEW r \in Requests, NEW ask \in Asks, ask[1] = r,
             Begin(r, ask[2], ask[3], ask[4])
      PROVE  Tidied'
  <2>1. pc[r] = "idle" /\ \A q \in Requests \ {r} : pc'[q] = pc[q] /\ req'[q] = req[q]
    BY <1>1, <1>3, BeginMoves
  <2>2. UNCHANGED <<active, tmp, sidecar, restarts>>
    BY <1>3 DEF Begin, files
  <2>3. pc[r] \notin Running
    BY <2>1
  <2> QED
    BY <1>1, <2>1, <2>2, <2>3 DEF Tidied
<1>4. CASE Restart
  <2>1. active' = NoActive /\ (\A n \in Names : tmp'[n] = NoRequest) /\ restarts' # 0
    BY <1>1, <1>4 DEF Restart, TypesOnly
  <2> QED
    BY <2>1 DEF Tidied
<1>5. ASSUME UNCHANGED <<pc, req, active, tmp, sidecar, restarts>>
      PROVE  Tidied'
  BY <1>1, <1>5 DEF Tidied
<1>6. ASSUME NEW x \in Indexes, BeginWrite(x) \/ EndWrite(x)
      PROVE  UNCHANGED <<pc, req, active, tmp, sidecar, restarts>>
  BY <1>6 DEF BeginWrite, EndWrite, jobs, local, files
<1>7. CASE UNCHANGED vars
  BY <1>7, <1>5 DEF vars, jobs, local, world, files
<1> QED
  BY <1>2, <1>3, <1>4, <1>5, <1>6, <1>7 DEF Next, Rest

\* Requests that are Apart after a step were so before: one that has not come is neither.
LEMMA ApartBefore ==
  ASSUME BackupInv, [Next]_vars, Apart'
  PROVE  Apart
<1>1. \A w \in Requests : pc[w] # "idle" => req'[w] = req[w]
  BY BegunStays
<1>2. \A w \in Requests : pc[w] = "idle" => req[w].kind = "none"
  BY DEF BackupInv, KindsOK
<1>3. \A w \in Requests : req[w].kind \in {"create", "upload"} => req'[w] = req[w]
  BY <1>1, <1>2
<1> QED
  BY <1>3 DEF Apart, MadeByJob

\* How a path comes to a file.
PathMoves ==
  \A n \in Names :
    /\ \/ tmp'[n] = tmp[n] \/ tmp'[n] = NoRequest
       \/ \E r \in Requests : JobOpensTar(r) /\ n = req[r].name /\ tmp'[n] = Opened(tmp[n], r)
    /\ \/ final'[n] = final[n] \/ final'[n] = NoRequest
       \/ \E r \in Requests : UploadOpens(r) /\ n = req[r].name /\ final'[n] = Opened(final[n], r)
       \/ \E r \in Requests : JobRenames(r) /\ n = req[r].name /\ final'[n] = tmp[n]

LEMMA StepPathMoves ==
  ASSUME BackupInv, [Next]_vars
  PROVE  PathMoves
<1>1. TypesOnly
  BY TypeParts DEF BackupInv
<1> USE DEF PathMoves
<1>2. ASSUME NEW r \in Requests, JobOpensTar(r)
      PROVE  PathMoves
  <2>1. final' = final /\ tmp' = [tmp EXCEPT ![req[r].name] = Opened(tmp[req[r].name], r)]
    BY <1>2 DEF JobOpensTar
  <2>2. \A n \in Names :
          tmp'[n] = tmp[n] \/ (n = req[r].name /\ tmp'[n] = Opened(tmp[n], r))
    BY <1>1, <2>1 DEF TypesOnly, Paths
  <2> QED
    BY <1>2, <2>1, <2>2
<1>9. ASSUME NEW r \in Requests, UploadOpens(r)
      PROVE  PathMoves
  <2>1. tmp' = tmp /\ final' = [final EXCEPT ![req[r].name] = Opened(final[req[r].name], r)]
    BY <1>9 DEF UploadOpens
  <2>2. \A n \in Names :
          final'[n] = final[n] \/ (n = req[r].name /\ final'[n] = Opened(final[n], r))
    BY <1>1, <2>1 DEF TypesOnly, Paths
  <2> QED
    BY <1>9, <2>1, <2>2
<1>3. ASSUME NEW r \in Requests, JobRenames(r)
      PROVE  PathMoves
  <2>1. \A n \in Names :
          /\ tmp'[n] = tmp[n] \/ tmp'[n] = NoRequest
          /\ final'[n] = final[n] \/ (n = req[r].name /\ final'[n] = tmp[n])
    BY <1>1, <1>3 DEF JobRenames, TypesOnly, Paths
  <2> QED
    BY <1>3, <2>1
<1>4. ASSUME NEW r \in Requests, JobStep(r), ~JobOpensTar(r), ~JobRenames(r)
      PROVE  PathMoves
  BY <1>1, <1>4 DEF TypesOnly, Paths, JobStep, JobFindsTar, JobReadsMeta, JobIsRefused, JobLocks,
     JobSaves, JobDescribes, JobFillsTar, JobFailsToTar, JobThrows, JobUnlocks, JobClears, FailTmp,
     FailFinal, FailInfo, FailClear, world, files
<1>5. ASSUME NEW r \in Requests, RequestStep(r), ~UploadOpens(r)
      PROVE  PathMoves
  BY <1>1, <1>5 DEF TypesOnly, Paths, RequestStep, AskActive, AskTar, StartJob, ReadJson, OpenJson,
     WriteJson, DeleteTar, UploadFindsTar, UploadFills, UploadFails, world, files
<1>6. CASE Restart
  BY <1>6 DEF Restart
<1>7. ASSUME ~Restart, ~(\E r \in Requests : Step(r))
      PROVE  UNCHANGED <<tmp, final>>
  BY <1>7 DEF Next, BeginWrite, EndWrite, Begin, Rest, vars, world, files
<1> QED
  BY <1>2, <1>3, <1>4, <1>5, <1>6, <1>7, <1>9 DEF Step

LEMMA StepKeepsPathsNamed ==
  ASSUME BackupInv, [Next]_vars
  PROVE  PathsNamed'
<1>1. /\ TypesOnly /\ PathsNamed /\ PathsOpened /\ KindsOK /\ UploadsUpload
  BY TypeParts DEF BackupInv
<1>2. \A w \in Requests : pc[w] # "idle" => req'[w] = req[w]
  BY BegunStays
<1>3. \A n \in Names : /\ tmp[n] \in Requests \cup {NoRequest}
                       /\ final[n] \in Requests \cup {NoRequest}
  BY <1>1 DEF TypesOnly, Paths
<1>4. \A n \in Names : /\ tmp[n] # NoRequest => req'[tmp[n]] = req[tmp[n]]
                       /\ final[n] # NoRequest => req'[final[n]] = req[final[n]]
  BY <1>1, <1>2, <1>3 DEF PathsOpened, Opener
<1>5. PathMoves
  BY StepPathMoves
<1>6. ASSUME NEW r \in Requests, JobOpensTar(r)
      PROVE  MadeByJob(r) /\ req'[r] = req[r]
  BY <1>1, <1>2, <1>6 DEF JobOpensTar, KindsOK
<1>7. ASSUME NEW r \in Requests, UploadOpens(r)
      PROVE  req[r].kind = "upload" /\ req'[r] = req[r]
  BY <1>1, <1>2, <1>7 DEF UploadOpens, UploadsUpload
<1>8. ASSUME NEW n \in Names, tmp'[n] # NoRequest
      PROVE  req'[tmp'[n]].kind = "create" /\ req'[tmp'[n]].name = n
  BY <1>1, <1>4, <1>5, <1>6, <1>8 DEF PathMoves, PathsNamed, Opened, MadeByJob
<1>9. ASSUME NEW n \in Names, final'[n] # NoRequest
      PROVE  req'[final'[n]].kind \in {"create", "upload"} /\ req'[final'[n]].name = n
  BY <1>1, <1>4, <1>5, <1>7, <1>9 DEF PathMoves, PathsNamed, Opened, MadeByJob
<1> QED
  BY <1>8, <1>9 DEF PathsNamed, MadeByJob

\* Apart, a path a request opens leads to no file but its own.
LEMMA OpensOwn ==
  ASSUME BackupInv, Apart, NEW r \in Requests, JobOpensTar(r) \/ UploadOpens(r)
  PROVE  /\ out' = [out EXCEPT ![r] = r] /\ file' = [file EXCEPT ![r] = Empty]
         /\ final[req[r].name] # r /\ pc[r] \notin Opener
<1>1. TypesOnly /\ Asked /\ PathsNamed /\ PathsOpened /\ KindsOK /\ UploadsUpload
  BY TypeParts DEF BackupInv
<1>2. /\ pc[r] \notin Opener /\ pc[r] # "idle" /\ req[r].kind \in {"create", "upload"}
  BY <1>1 DEF JobOpensTar, UploadOpens, Opener, KindsOK, UploadsUpload, MadeByJob
<1>3. req[r].name \in Names
  BY <1>1, <1>2, RequestHasParts
<1>4. tmp[req[r].name] \in {NoRequest, r} /\ final[req[r].name] \in {NoRequest, r}
  BY <1>1, <1>2, <1>3 DEF TypesOnly, Paths, PathsNamed, Apart, MadeByJob
<1>5. out[r] = NoRequest
  BY <1>1, <1>2 DEF PathsOpened
<1>6. final[req[r].name] # r
  BY <1>1, <1>3, <1>5, BackupAssumption DEF PathsOpened
<1>7. Opened(tmp[req[r].name], r) = r /\ Opened(final[req[r].name], r) = r
  BY <1>4 DEF Opened
<1> QED
  BY <1>2, <1>6, <1>7 DEF JobOpensTar, UploadOpens

\* Apart, a step of r leaves what the others write, and of its own it knows how far it is.
KeepsApart(r) ==
  /\ \A q \in Requests \ {r} : file'[q] = file[q] /\ out'[q] = out[q]
  /\ \A q \in Requests \ {r} :
       req[q].name \in Names /\ final'[req[q].name] = q => final[req[q].name] = q
  /\ out'[r] \in {NoRequest, r}
  /\ pc'[r] \in {"fillTar", "fill"} => file'[r].state = "partial"
  /\ pc'[r] \in {"undescribe", "clear", "rename"} => file'[r].state = "whole"
  /\ pc'[r] \in {"fillTar", "undescribe", "clear", "rename", "failTmp", "failFinal"} =>
       final'[req[r].name] # r
  /\ file'[r] # file[r] /\ pc[r] # "fill" => final[req[r].name] # r

LEMMA FillsOwn ==
  ASSUME BackupInv, Apart, NEW r \in Requests, JobFillsTar(r) \/ UploadFills(r)
  PROVE  /\ out[r] = r /\ \A q \in Requests \ {r} : file'[q] = file[q]
         /\ file'[r].state = "whole"
<1>1. TypesOnly /\ PathsOpened /\ Separate
  BY TypeParts DEF BackupInv
<1>2. pc[r] \in {"fillTar", "fill"}
  BY DEF JobFillsTar, UploadFills
<1>3. out[r] = r
  BY <1>1, <1>2 DEF PathsOpened, Separate
<1>4. file[r].state = "partial" /\ \A q \in Requests \ {r} : out[q] # r
  BY <1>1, <1>2, BackupAssumption DEF Separate
<1>5. \A c : Filled(r, c) = c
  BY <1>3, <1>4 DEF Filled
<1>6. PICK c : file' = [file EXCEPT ![r] = c] /\ c.state = "whole"
  <2>1. CASE JobFillsTar(r)
    <3> DEFINE x == req[r].index
               c == [state |-> "whole", by |-> r, db |-> db[x], image |-> image[x],
                     info |-> sidecar[x]]
    <3>1. file' = [file EXCEPT ![r] = c] /\ c.state = "whole"
      BY <1>3, <1>5, <2>1 DEF JobFillsTar
    <3> QED
      BY <3>1
  <2>2. CASE UploadFills(r)
    <3> DEFINE c == [Empty EXCEPT !.state = "whole", !.by = r]
    <3>1. file' = [file EXCEPT ![r] = c]
      BY <1>3, <1>5, <2>2 DEF UploadFills
    <3>2. c.state = "whole"
      BY DEF Empty
    <3> QED
      BY <3>1, <3>2
  <2> QED
    BY <2>1, <2>2
<1> QED
  BY <1>1, <1>3, <1>6 DEF TypesOnly

LEMMA StepKeepsApart ==
  ASSUME BackupInv, [Next]_vars, Apart, NEW r \in Requests, Step(r)
  PROVE  KeepsApart(r)
<1>1. /\ TypesOnly /\ Asked /\ PathsNamed /\ PathsOpened /\ KindsOK /\ UploadsUpload /\ Separate
  BY TypeParts DEF BackupInv
<1>2. pc[r] # "idle" /\ \A q \in Requests \ {r} : pc'[q] = pc[q]
  BY <1>1, StepMoves
<1>3. req[r].name \in Names
  BY <1>1, <1>2, RequestHasParts
<1>4. pc[r] \notin Opener => final[req[r].name] # r
  BY <1>1, <1>3, BackupAssumption DEF PathsOpened
<1>5. r # NoRequest
  BY BackupAssumption
\* What becomes of the paths.
<1>6. \A q \in Requests \ {r} :
        req[q].name \in Names /\ final'[req[q].name] = q => final[req[q].name] = q
  <2> SUFFICES ASSUME NEW q \in Requests \ {r}, NEW n \in Names, n = req[q].name, final'[n] = q,
                      final[n] # q
               PROVE  FALSE
    OBVIOUS
  <2>1. q # NoRequest
    BY BackupAssumption
  <2>2. CASE UploadOpens(r)
    <3>1. Opened(final[req[r].name], r) = r
      BY <1>1, <1>3, <2>2, OpensOwn DEF Opened, PathsNamed, Apart, TypesOnly, Paths, UploadsUpload,
         UploadOpens, MadeByJob
    <3> QED
      BY <1>1, <1>3, <2>2, <3>1 DEF UploadOpens, TypesOnly, Paths
  <2>3. CASE JobRenames(r)
    <3>1. n = req[r].name /\ tmp[n] = q
      BY <1>1, <1>3, <2>1, <2>3 DEF JobRenames, TypesOnly, Paths
    <3>2. MadeByJob(q) /\ MadeByJob(r)
      BY <1>1, <2>1, <2>3, <3>1 DEF PathsNamed, KindsOK, JobRenames
    <3> QED
      BY <3>1, <3>2 DEF Apart, MadeByJob
  <2>4. CASE ~UploadOpens(r) /\ ~JobRenames(r)
    <3>1. final'[n] = final[n] \/ final'[n] = NoRequest
      <4>1. CASE JobStep(r)
        BY <1>1, <2>4, <4>1 DEF TypesOnly, Paths, JobStep, JobFindsTar, JobReadsMeta, JobIsRefused,
           JobLocks, JobSaves, JobDescribes, JobOpensTar, JobFillsTar, JobFailsToTar, JobThrows,
           JobUnlocks, JobClears, FailTmp, FailFinal, FailInfo, FailClear, world, files
      <4>2. CASE RequestStep(r)
        BY <1>1, <2>4, <4>2 DEF TypesOnly, Paths, RequestStep, AskActive, AskTar, StartJob, ReadJson,
           OpenJson, WriteJson, DeleteTar, UploadFindsTar, UploadFills, UploadFails, world, files
      <4> QED
        BY <4>1, <4>2 DEF Step
    <3> QED
      BY <2>1, <3>1
  <2> QED
    BY <2>2, <2>3, <2>4
\* The steps that write.
<1>7. CASE JobOpensTar(r)
  <2>1. /\ out' = [out EXCEPT ![r] = r] /\ file' = [file EXCEPT ![r] = Empty]
        /\ final[req[r].name] # r
    BY <1>7, OpensOwn
  <2>2. pc'[r] = "fillTar" /\ final' = final
    BY <1>1, <1>7 DEF JobOpensTar, Goto, TypesOnly
  <2> QED
    BY <1>1, <1>6, <2>1, <2>2 DEF KeepsApart, Empty, TypesOnly
<1>8. CASE UploadOpens(r)
  <2>1. /\ out' = [out EXCEPT ![r] = r] /\ file' = [file EXCEPT ![r] = Empty]
        /\ final[req[r].name] # r
    BY <1>8, OpensOwn
  <2>2. pc'[r] = "fill"
    BY <1>1, <1>8 DEF UploadOpens, Goto, TypesOnly
  <2> QED
    BY <1>1, <1>6, <2>1, <2>2 DEF KeepsApart, Empty, TypesOnly
<1>9. CASE JobFillsTar(r)
  <2>1. /\ out[r] = r /\ \A q \in Requests \ {r} : file'[q] = file[q]
        /\ file'[r].state = "whole"
    BY <1>9, FillsOwn
  <2>2. pc[r] = "fillTar" /\ pc'[r] = "undescribe" /\ final' = final /\ out' = out
    BY <1>1, <1>9 DEF JobFillsTar, Goto, TypesOnly, local
  <2> QED
    BY <1>1, <1>6, <2>1, <2>2 DEF KeepsApart, Separate
<1>10. CASE UploadFills(r)
  <2>1. /\ out[r] = r /\ \A q \in Requests \ {r} : file'[q] = file[q]
        /\ file'[r].state = "whole"
    BY <1>10, FillsOwn
  <2>2. pc[r] = "fill" /\ pc'[r] = "done" /\ out' = out
    BY <1>1, <1>10 DEF UploadFills, Goto, TypesOnly, local
  <2> QED
    BY <1>1, <1>6, <2>1, <2>2 DEF KeepsApart
\* The others.
<1>11. ASSUME ~JobOpensTar(r), ~UploadOpens(r), ~JobFillsTar(r), ~UploadFills(r)
       PROVE  /\ UNCHANGED <<out, file>> /\ pc'[r] \notin {"fillTar", "fill"}
              /\ pc'[r] \in {"undescribe", "clear", "rename"} =>
                   pc[r] \in {"undescribe", "clear", "rename"}
              /\ pc'[r] \in {"failTmp", "failFinal", "undescribe", "clear", "rename"} =>
                   /\ final'[req[r].name] \in {final[req[r].name], NoRequest}
                   /\ pc[r] \in Opener => pc[r] \in {"fillTar", "undescribe", "clear", "rename",
                                                     "failTmp", "failFinal"}
  <2>1. CASE JobStep(r)
    BY <1>1, <1>3, <1>11, <2>1 DEF TypesOnly, Paths, JobStep, JobFindsTar, JobReadsMeta, JobIsRefused,
       JobLocks, JobSaves, JobDescribes, JobFailsToTar, JobThrows, JobUnlocks, JobClears,
       JobRenames, FailTmp, FailFinal, FailInfo, FailClear, Goto, local, world, files, Opener
  <2>2. CASE RequestStep(r)
    BY <1>1, <1>11, <2>2 DEF TypesOnly, RequestStep, AskActive, AskTar, StartJob, ReadJson,
       OpenJson, WriteJson, DeleteTar, UploadFindsTar, UploadFails, Goto, local, world, files
  <2> QED
    BY <2>1, <2>2 DEF Step
<1>12. CASE ~JobOpensTar(r) /\ ~UploadOpens(r) /\ ~JobFillsTar(r) /\ ~UploadFills(r)
  <2>1. pc'[r] \in {"undescribe", "clear", "rename", "failTmp", "failFinal"} => final'[req[r].name] # r
    BY <1>1, <1>4, <1>5, <1>11, <1>12 DEF Separate
  <2> QED
    BY <1>1, <1>6, <1>11, <1>12, <2>1 DEF KeepsApart, Separate
<1> QED
  BY <1>7, <1>8, <1>9, <1>10, <1>12

LEMMA StepKeepsSeparate ==
  ASSUME BackupInv, [Next]_vars
  PROVE  Separate'
<1>1. TypesOnly /\ Asked /\ Separate /\ PathsOpened
  BY TypeParts DEF BackupInv
<1>2. SUFFICES ASSUME Apart, Apart'
               PROVE  Separate'
  BY ApartBefore DEF Separate
<1>3. ASSUME NEW r \in Requests, Step(r)
      PROVE  Separate'
  <2>1. KeepsApart(r) /\ req' = req /\ \A q \in Requests \ {r} : pc'[q] = pc[q]
    BY <1>1, <1>2, <1>3, StepKeepsApart, StepMoves
  <2>2. \A q \in Requests : pc[q] # "idle" => req[q].name \in Names
    BY <1>1, RequestHasParts
  <2> QED
    BY <1>1, <1>2, <2>1, <2>2 DEF KeepsApart, Separate
<1>4. ASSUME NEW r \in Requests, NEW ask \in Asks, ask[1] = r,
             Begin(r, ask[2], ask[3], ask[4])
      PROVE  Separate'
  <2>1. /\ pc[r] = "idle" /\ pc'[r] \in {"askActive", "check", "remove"}
        /\ \A q \in Requests \ {r} : pc'[q] = pc[q] /\ req'[q] = req[q]
    BY <1>1, <1>4, BeginMoves
  <2>2. UNCHANGED <<out, final, file>>
    BY <1>4 DEF Begin, files
  <2> QED
    BY <1>1, <1>2, <2>1, <2>2 DEF Separate
<1>5. CASE Restart
  <2>1. UNCHANGED <<out, final, file, req>> /\ \A q \in Requests : pc'[q] \in {"idle", "done"}
    BY <1>5 DEF Restart, local
  <2> QED
    BY <1>1, <1>2, <2>1 DEF Separate
<1>6. ASSUME UNCHANGED <<pc, req, out, final, file>>
      PROVE  Separate'
  BY <1>1, <1>2, <1>6 DEF Separate
<1>7. ASSUME NEW x \in Indexes, BeginWrite(x) \/ EndWrite(x)
      PROVE  UNCHANGED <<pc, req, out, final, file>>
  BY <1>7 DEF BeginWrite, EndWrite, jobs, local, files
<1>8. CASE UNCHANGED vars
  BY <1>8, <1>6 DEF vars, jobs, local, world, files
<1> QED
  BY <1>3, <1>4, <1>5, <1>6, <1>7, <1>8 DEF Next, Rest

\* The description of an index.
LEMMA StepKeepsInfo ==
  ASSUME BackupInv, [Next]_vars
  PROVE  InfoRead' /\ InfoWritten'
<1>1. TypesOnly /\ Asked /\ InfoRead /\ InfoWritten /\ KindsOK
  BY TypeParts DEF BackupInv
<1>2. ASSUME NEW r \in Requests, Step(r)
      PROVE  InfoRead' /\ InfoWritten'
  <2>1. /\ req' = req /\ pc[r] # "idle" /\ \A q \in Requests \ {r} : pc'[q] = pc[q]
    BY <1>1, <1>2, StepMoves
  <2>2. \A q \in Requests : pc[q] # "idle" => req[q].index \in Indexes
    BY <1>1, RequestHasParts
  <2>3. CASE JobReadsMeta(r)
    BY <1>1, <2>1, <2>3 DEF JobReadsMeta, TypesOnly, Goto, InfoRead, InfoWritten, Apart, MadeByJob
  <2>4. CASE JobDescribes(r)
    <3>1. /\ pc[r] = "describe" /\ pc'[r] = "openTar" /\ info' = info
          /\ sidecar' = [sidecar EXCEPT ![req[r].index] = info[r]]
      BY <1>1, <2>4 DEF JobDescribes, Goto, TypesOnly, local
    <3>2. InfoRead' /\ info[r].known
      BY <1>1, <2>1, <3>1 DEF InfoRead
    <3>3. \A x \in Indexes : sidecar[x].known => sidecar'[x].known
      BY <1>1, <3>1, <3>2 DEF TypesOnly
    <3>4. sidecar'[req[r].index].known
      BY <1>1, <2>1, <2>2, <3>1, <3>2 DEF TypesOnly
    <3> QED
      BY <1>1, <2>1, <2>2, <3>1, <3>2, <3>3, <3>4 DEF InfoWritten, Apart, MadeByJob
  <2>5. CASE JobFailsToTar(r) \/ JobUnlocks(r) \/ FailInfo(r)
    <3>1. /\ pc[r] \in Running /\ info' = info /\ pc'[r] \notin {"openTar", "fillTar"}
          /\ pc'[r] \notin {"lock", "save", "describe"}
          /\ \A x \in Indexes \ {req[r].index} : sidecar'[x] = sidecar[x]
      BY <1>1, <2>5 DEF JobFailsToTar, JobUnlocks, FailInfo, Goto, TypesOnly, local
    <3>2. InfoRead'
      BY <1>1, <2>1, <3>1 DEF InfoRead
    <3>3. ASSUME Apart, NEW q \in Requests, pc'[q] \in {"openTar", "fillTar"}
          PROVE  sidecar'[req[q].index].known
      <4>1. q # r /\ pc[q] \in {"openTar", "fillTar"}
        BY <2>1, <3>1, <3>3
      <4>2. MadeByJob(q) /\ MadeByJob(r)
        BY <1>1, <3>1, <4>1 DEF KindsOK
      <4>3. req[q].index # req[r].index /\ req[q].index \in Indexes
        BY <2>2, <3>3, <4>1, <4>2 DEF Apart, MadeByJob
      <4> QED
        BY <1>1, <3>1, <3>3, <4>1, <4>3 DEF InfoWritten
    <3> QED
      BY <2>1, <3>2, <3>3 DEF InfoWritten, Apart, MadeByJob
  <2>6. CASE /\ ~JobReadsMeta(r) /\ ~JobDescribes(r) /\ ~JobFailsToTar(r) /\ ~JobUnlocks(r)
             /\ ~FailInfo(r)
    <3>1. /\ UNCHANGED <<info, sidecar>>
          /\ pc'[r] \in {"openTar", "fillTar"} => pc[r] \in {"openTar", "fillTar"}
          /\ pc'[r] \in {"lock", "save", "describe"} => pc[r] \in {"lock", "save", "describe"}
      <4>1. CASE JobStep(r)
        BY <1>1, <2>6, <4>1 DEF TypesOnly, JobStep, JobFindsTar, JobIsRefused, JobLocks, JobSaves,
           JobOpensTar, JobFillsTar, JobThrows, JobClears, JobRenames, FailTmp, FailFinal, FailClear,
           Goto, local, world
      <4>2. CASE RequestStep(r)
        BY <1>1, <4>2 DEF TypesOnly, RequestStep, AskActive, AskTar, StartJob, ReadJson, OpenJson,
           WriteJson, DeleteTar, UploadFindsTar, UploadOpens, UploadFills, UploadFails, Goto, local,
           world
      <4> QED
        BY <1>2, <4>1, <4>2 DEF Step
    <3> QED
      BY <1>1, <2>1, <3>1 DEF InfoRead, InfoWritten, Apart, MadeByJob
  <2> QED
    BY <2>3, <2>4, <2>5, <2>6
<1>3. ASSUME NEW r \in Requests, NEW ask \in Asks, ask[1] = r,
             Begin(r, ask[2], ask[3], ask[4])
      PROVE  InfoRead' /\ InfoWritten'
  <2>1. /\ pc[r] = "idle" /\ pc'[r] \in {"askActive", "check", "remove"}
        /\ \A q \in Requests \ {r} : pc'[q] = pc[q] /\ req'[q] = req[q]
    BY <1>1, <1>3, BeginMoves
  <2>2. UNCHANGED <<info, sidecar>>
    BY <1>3 DEF Begin
  <2>3. Apart' => Apart
    BY ApartBefore
  <2> QED
    BY <1>1, <2>1, <2>2, <2>3 DEF InfoRead, InfoWritten
<1>4. CASE Restart
  <2>1. \A q \in Requests : pc'[q] \in {"idle", "done"}
    BY <1>4 DEF Restart
  <2> QED
    BY <2>1 DEF InfoRead, InfoWritten
<1>5. ASSUME UNCHANGED <<pc, req, info, sidecar>>
      PROVE  InfoRead' /\ InfoWritten'
  BY <1>1, <1>5 DEF InfoRead, InfoWritten, Apart, MadeByJob
<1>6. ASSUME NEW x \in Indexes, BeginWrite(x) \/ EndWrite(x)
      PROVE  UNCHANGED <<pc, req, info, sidecar>>
  BY <1>6 DEF BeginWrite, EndWrite, jobs, local
<1>7. CASE UNCHANGED vars
  BY <1>7, <1>5 DEF vars, jobs, local, world
<1> QED
  BY <1>2, <1>3, <1>4, <1>5, <1>6, <1>7 DEF Next, Rest

-----------------------------------------------------------------------------
LEMMA InitBackupInv == Init => BackupInv
<1> SUFFICES ASSUME Init
             PROVE  BackupInv
  OBVIOUS
<1>1. \A x \in Indexes : db[x] = 0 /\ mem[x] = 0 /\ image[x] = 0
  BY DEF Init
<1>2. TypesOnly
  <2>1. EmptyJson \in [Names -> Infos]
    BY ContentsOK DEF EmptyJson
  <2>2. 0 \in 0..MaxWrites /\ 0 \in 0..MaxRestarts
    BY BackupAssumption
  <2>3. NoActive \in [name : Names \cup {"none"}, index : Indexes \cup {"none"}]
    BY DEF NoActive
  <2>4. /\ db \in IndexCounts /\ mem \in IndexCounts /\ image \in IndexCounts
        /\ count \in IndexCounts
    BY <2>2 DEF Init, IndexCounts
  <2>5. /\ json \in [Names -> Infos] /\ seen \in [Requests -> [Names -> Infos]]
        /\ active \in [name : Names \cup {"none"}, index : Indexes \cup {"none"}]
    BY <2>1, <2>3 DEF Init
  <2> QED
    BY <2>2, <2>4, <2>5, ContentsOK DEF Init, TypesOnly, Paths
<1>3. /\ \A n \in Names : tmp[n] = NoRequest /\ final[n] = NoRequest
      /\ \A r \in Requests : pc[r] = "idle" /\ out[r] = NoRequest
      /\ \A r \in Requests : file[r].state = "partial"
  BY DEF Init, Empty
<1>4. PathsDistinct /\ PathsOpened
  BY <1>3 DEF PathsDistinct, PathsOpened
<1>5. /\ Asked /\ UploadsUpload /\ LockHeld /\ SavedHeld /\ AskedReached /\ WritersBegun
      /\ TarExact
  BY <1>3 DEF Asked, UploadsUpload, LockHeld, SavedHeld, AskedReached, WritersBegun, TarExact
<1>6. Quiet
  BY <1>1 DEF Quiet
<1>7. KindsOK /\ PathsNamed /\ Separate /\ InfoRead /\ InfoWritten
  BY <1>3 DEF Init, KindsOK, PathsNamed, Separate, InfoRead, InfoWritten
<1>8. Tidied
  BY <1>3 DEF Init, Tidied, NoInfo
<1> QED
  BY <1>2, <1>4, <1>5, <1>6, <1>7, <1>8, TypeParts DEF BackupInv

LEMMA StepKeepsBackupInv == BackupInv /\ [Next]_vars => BackupInv'
<1> SUFFICES ASSUME BackupInv, [Next]_vars
             PROVE  BackupInv'
  OBVIOUS
<1>1. TypesOnly'
  BY StepKeepsTypes
<1>2. PathsOpened' /\ PathsDistinct'
  BY StepKeepsPaths
<1>3. BackupTypeOK'
  BY <1>1, <1>2 DEF TypesOnly, BackupTypeOK
<1>4. Asked' /\ UploadsUpload'
  BY StepKeepsAsked, StepKeepsUploads
<1>5. LockHeld' /\ Quiet' /\ SavedHeld' /\ AskedReached'
  BY StepKeepsLocks DEF Locks
<1>6. WritersBegun' /\ TarExact'
  BY StepKeepsExact
<1>7. KindsOK' /\ Tidied' /\ PathsNamed' /\ Separate' /\ InfoRead' /\ InfoWritten'
  BY StepKeepsKinds, StepKeepsTidied, StepKeepsPathsNamed, StepKeepsSeparate, StepKeepsInfo
<1> QED
  BY <1>2, <1>3, <1>4, <1>5, <1>6, <1>7 DEF BackupInv

\* The inductive invariant of the backups of a user, whatever is requested, written
\* and restarted, in whatever order.
THEOREM BackupInvariant == Spec => []BackupInv
  BY InitBackupInv, StepKeepsBackupInv, PTL DEF Spec

\* No tar is ever reached by two paths, and all is of its type.
THEOREM BackupTypeCorrect == Spec => []BackupTypeOK
<1>1. BackupInv => BackupTypeOK
  BY DEF BackupInv
<1> QED
  BY <1>1, BackupInvariant, PTL

\* Every tar a job completes holds databases and graph of one moment, no earlier
\* than the request: what operation_mutex and saveIndexInternal are for.
THEOREM TarAlwaysExact == Spec => []TarExact
<1>1. BackupInv => TarExact
  BY DEF BackupInv
<1> QED
  BY <1>1, BackupInvariant, PTL

\* Once all requests are over, nothing is left of them (ndd.hpp:1828-1876, the error handler
\* of executeBackupJob).
THEOREM NothingLeftOver == Spec => []NoLeftovers
<1>1. BackupInv => NoLeftovers
  BY DEF BackupInv, Tidied, NoLeftovers, Over
<1> QED
  BY <1>1, BackupInvariant, PTL

\* What a step does to a file that has its final name.
LEMMA StepKeepsFinal ==
  ASSUME BackupInv, [Next]_vars, FinalWhole
  PROVE  FinalWhole'
<1>1. /\ TypesOnly /\ Asked /\ PathsNamed /\ PathsOpened /\ KindsOK /\ UploadsUpload /\ Separate
  BY TypeParts DEF BackupInv
<1>2. SUFFICES ASSUME Apart, NEW n \in Names, final'[n] # NoRequest, MadeByJob(final[n])'
               PROVE  file'[final'[n]].state = "whole"
  BY ApartBefore DEF FinalWhole
<1>3. PathMoves
  BY StepPathMoves
<1>4. \A w \in Requests : pc[w] # "idle" => pc'[w] # "idle" /\ req'[w] = req[w]
  BY BegunStays
<1>5. CASE final'[n] = final[n]
  <2> DEFINE f == final[n]
  <2>1. f \in Requests /\ out[f] = f /\ f # NoRequest
    BY <1>1, <1>2, <1>5 DEF TypesOnly, Paths, PathsOpened
  <2>2. pc[f] \in Opener /\ pc[f] # "idle"
    BY <1>1, <2>1 DEF PathsOpened, Opener
  <2>3. MadeByJob(f) /\ req[f].name = n /\ file[f].state = "whole"
    BY <1>1, <1>2, <1>4, <1>5, <2>1, <2>2 DEF FinalWhole, PathsNamed, MadeByJob
  <2>4. pc[f] # "fill" /\ pc[f] # "fillTar"
    BY <1>1, <1>2, <2>1, <2>3 DEF Separate
  <2>5. file'[f] = file[f]
    <3>1. ASSUME NEW r \in Requests, Step(r)
          PROVE  file'[f] = file[f]
      <4>1. KeepsApart(r)
        BY <1>2, <3>1, StepKeepsApart
      <4> QED
        BY <2>1, <2>3, <2>4, <4>1 DEF KeepsApart
    <3>2. ASSUME ~(\E r \in Requests : Step(r))
          PROVE  UNCHANGED file
      BY <3>2 DEF Next, BeginWrite, EndWrite, Begin, Restart, Rest, vars, world, files
    <3> QED
      BY <3>1, <3>2
  <2> QED
    BY <1>5, <2>3, <2>5
<1>6. CASE \E r \in Requests : JobRenames(r) /\ n = req[r].name /\ final'[n] = tmp[n]
  <2> PICK r \in Requests : JobRenames(r) /\ n = req[r].name /\ final'[n] = tmp[n]
    BY <1>6
  <2>1. /\ tmp[n] \in Requests /\ MadeByJob(tmp[n]) /\ req[tmp[n]].name = n
    BY <1>1, <1>2 DEF TypesOnly, Paths, PathsNamed
  <2>2. MadeByJob(r) /\ pc[r] = "rename" /\ file' = file
    BY <1>1 DEF KindsOK, JobRenames
  <2>3. tmp[n] = r
    BY <1>2, <2>1, <2>2 DEF Apart, MadeByJob
  <2> QED
    BY <1>1, <1>2, <2>2, <2>3 DEF Separate
<1>7. CASE \E r \in Requests : UploadOpens(r) /\ n = req[r].name /\ final'[n] = Opened(final[n], r)
  <2> PICK r \in Requests : UploadOpens(r) /\ n = req[r].name /\ final'[n] = Opened(final[n], r)
    BY <1>7
  <2>1. req[r].kind = "upload" /\ pc[r] # "idle"
    BY <1>1 DEF UploadsUpload, UploadOpens
  <2>2. req'[r].kind = "upload"
    BY <1>4, <2>1
  <2>3. final'[n] # r
    BY <1>2, <2>2 DEF MadeByJob
  <2> QED
    BY <1>5, <2>3 DEF Opened
<1> QED
  BY <1>2, <1>3, <1>5, <1>6, <1>7 DEF PathMoves

\* What a job puts under a final name is complete (ndd.hpp:1846-1876: the tar is renamed once
\* it is written), if no other job or upload has its name and no other job its index.
THEOREM FinalsAreWhole == Spec => []FinalWhole
<1>1. Init => FinalWhole
  BY DEF Init, FinalWhole
<1> QED
  BY <1>1, StepKeepsFinal, BackupInvariant, PTL DEF Spec

LEMMA StepKeepsDescribed ==
  ASSUME BackupInv, [Next]_vars, TarDescribed
  PROVE  TarDescribed'
<1>1. /\ TypesOnly /\ WritersBegun /\ UploadsUpload /\ InfoWritten
  BY TypeParts DEF BackupInv
<1>2. SUFFICES ASSUME Apart, NEW f \in Requests, file'[f].state = "whole", MadeByJob(file[f].by)'
               PROVE  file'[f].info.known
  BY ApartBefore DEF TarDescribed
<1>3. \A w \in Requests : pc[w] # "idle" => pc'[w] # "idle" /\ req'[w] = req[w]
  BY BegunStays
<1>4. CASE file'[f] = file[f]
  <2>1. MadeByJob(file[f].by)
    BY <1>1, <1>2, <1>3, <1>4 DEF WritersBegun, MadeByJob
  <2> QED
    BY <1>2, <1>4, <2>1 DEF TarDescribed
<1>5. ASSUME NEW r \in Requests, JobFillsTar(r), file'[f] # file[f]
      PROVE  file'[f].info.known
  <2> DEFINE x == req[r].index
             c == [state |-> "whole", by |-> r, db |-> db[x], image |-> image[x],
                   info |-> sidecar[x]]
  <2>1. f = out[r] /\ file'[f] = Filled(r, c)
    BY <1>1, <1>5 DEF JobFillsTar, TypesOnly
  <2>2. Filled(r, c) = c
    BY <1>2, <2>1 DEF Filled, Empty
  <2>3. sidecar[x].known
    BY <1>1, <1>2, <1>5 DEF InfoWritten, JobFillsTar
  <2> QED
    BY <2>1, <2>2, <2>3
<1>6. ASSUME NEW r \in Requests, UploadFills(r), file'[f] # file[f]
      PROVE  FALSE
  <2> DEFINE c == [Empty EXCEPT !.state = "whole", !.by = r]
  <2>1. file'[f] = Filled(r, c)
    BY <1>1, <1>6 DEF UploadFills, TypesOnly
  <2>2. Filled(r, c) = c
    BY <1>2, <2>1 DEF Filled, Empty
  <2>3. c.by = r
    BY DEF Empty
  <2>4. pc[r] # "idle" /\ req[r].kind = "upload"
    BY <1>1, <1>6 DEF UploadFills, UploadsUpload
  <2> QED
    BY <1>2, <1>3, <2>1, <2>2, <2>3, <2>4 DEF MadeByJob
<1>7. ASSUME NEW r \in Requests, JobOpensTar(r) \/ UploadOpens(r), file'[f] # file[f]
      PROVE  FALSE
  <2>1. \E g : file' = [file EXCEPT ![g] = Empty]
    BY <1>7 DEF JobOpensTar, UploadOpens
  <2> QED
    BY <1>1, <1>2, <1>7, <2>1 DEF TypesOnly, Empty
<1>8. ASSUME NEW r \in Requests, JobStep(r), ~JobOpensTar(r), ~JobFillsTar(r)
      PROVE  UNCHANGED file
  BY <1>8 DEF JobStep, JobFindsTar, JobReadsMeta, JobIsRefused, JobLocks, JobSaves,
     JobDescribes, JobFailsToTar, JobThrows, JobUnlocks, JobClears, JobRenames, FailTmp, FailFinal,
     FailInfo, FailClear, world, files
<1>9. ASSUME NEW r \in Requests, RequestStep(r), ~UploadOpens(r), ~UploadFills(r)
      PROVE  UNCHANGED file
  BY <1>9 DEF RequestStep, AskActive, AskTar, StartJob, ReadJson, OpenJson, WriteJson,
     DeleteTar, UploadFindsTar, UploadFails, world, files
<1>10. ASSUME ~(\E r \in Requests : Step(r))
       PROVE  UNCHANGED file
  BY <1>10 DEF Next, BeginWrite, EndWrite, Begin, Restart, Rest, vars, world, files
<1> QED
  BY <1>4, <1>5, <1>6, <1>7, <1>8, <1>9, <1>10 DEF Step

\* A tar a job has written holds the description without which it cannot be restored
\* (ndd.hpp:1820-1844); other jobs and uploads Apart.
THEOREM TarsAreDescribed == Spec => []TarDescribed
<1>1. Init => TarDescribed
  BY DEF Init, TarDescribed, Empty
<1> QED
  BY <1>1, StepKeepsDescribed, BackupInvariant, PTL DEF Spec

\* A finished backup goes by a deletion only.
LEMMA StepKeepsFinished ==
  ASSUME BackupInv, [Next]_vars, Apart', NEW n \in Names,
         final[n] # NoRequest, file[final[n]].state = "whole", final'[n] # final[n]
  PROVE  \E r \in Requests : pc[r] = "remove" /\ req[r].name = n /\ pc'[r] # "remove"
<1>1. /\ TypesOnly /\ Asked /\ PathsNamed /\ PathsOpened /\ KindsOK /\ UploadsUpload /\ Separate
  BY TypeParts DEF BackupInv
<1>2. Apart
  BY ApartBefore
<1> DEFINE f == final[n]
<1>3. /\ f \in Requests /\ req[f].name = n /\ req[f].kind \in {"create", "upload"}
      /\ pc[f] \in Opener
  BY <1>1 DEF TypesOnly, Paths, PathsNamed, PathsOpened
<1>4. ASSUME NEW r \in Requests, req[r].name = n, req[r].kind \in {"create", "upload"}
      PROVE  f = r
  BY <1>2, <1>3, <1>4 DEF Apart
<1>5. ASSUME NEW r \in Requests, UploadOpens(r)
      PROVE  FALSE
  <2>1. req[r].kind = "upload" /\ pc[r] \notin Opener /\ n = req[r].name
    BY <1>1, <1>5 DEF UploadOpens, UploadsUpload, Opener, TypesOnly, Paths
  <2> QED
    BY <1>3, <1>4, <2>1
<1>6. ASSUME NEW r \in Requests, JobRenames(r) \/ FailFinal(r)
      PROVE  FALSE
  <2>1. /\ MadeByJob(r) /\ pc[r] \in {"rename", "failFinal"} /\ n = req[r].name
    BY <1>1, <1>6 DEF JobRenames, FailFinal, KindsOK, TypesOnly, Paths
  <2>2. f = r
    BY <1>4, <2>1 DEF MadeByJob
  <2> QED
    BY <1>1, <1>2, <2>1, <2>2 DEF Separate
<1>7. ASSUME NEW r \in Requests, UploadFails(r)
      PROVE  FALSE
  <2>1. req[r].kind = "upload" /\ pc[r] = "fill" /\ n = req[r].name
    BY <1>1, <1>7 DEF UploadFails, UploadsUpload, TypesOnly, Paths
  <2>2. f = r
    BY <1>4, <2>1
  <2> QED
    BY <1>1, <1>2, <2>1, <2>2 DEF Separate
<1>8. ASSUME NEW r \in Requests, DeleteTar(r)
      PROVE  pc[r] = "remove" /\ req[r].name = n /\ pc'[r] # "remove"
  BY <1>1, <1>8 DEF DeleteTar, Goto, TypesOnly, Paths
<1>9. ASSUME NEW r \in Requests, JobStep(r), ~JobRenames(r), ~FailFinal(r)
      PROVE  UNCHANGED final
  BY <1>9 DEF JobStep, JobFindsTar, JobReadsMeta, JobIsRefused, JobLocks, JobSaves, JobDescribes,
     JobOpensTar, JobFillsTar, JobFailsToTar, JobThrows, JobUnlocks, JobClears, FailTmp, FailInfo,
     FailClear, world, files
<1>10. ASSUME NEW r \in Requests, RequestStep(r), ~UploadOpens(r), ~UploadFails(r), ~DeleteTar(r)
       PROVE  UNCHANGED final
  BY <1>10 DEF RequestStep, AskActive, AskTar, StartJob, ReadJson, OpenJson, WriteJson,
     UploadFindsTar, UploadFills, world, files
<1>11. ASSUME ~(\E r \in Requests : Step(r))
       PROVE  UNCHANGED final
  BY <1>11 DEF Next, BeginWrite, EndWrite, Begin, Restart, Rest, vars, world, files
<1> QED
  BY <1>5, <1>6, <1>7, <1>8, <1>9, <1>10, <1>11 DEF Step

\* A complete backup disappears only by a request that deletes it, not by a job or an upload
\* that fails, nor by a restart; other jobs and uploads Apart.
THEOREM FinishedBackupsStay == Spec => FinishedKept
<1>1. ASSUME BackupInv, [Next]_vars
      PROVE  [Apart' => \A n \in Names :
                final[n] # NoRequest /\ file[final[n]].state = "whole" /\ final'[n] # final[n] =>
                  \E r \in Requests : pc[r] = "remove" /\ req[r].name = n /\ pc'[r] # "remove"]_vars
  BY <1>1, StepKeepsFinished
<1> QED
  BY <1>1, BackupInvariant, PTL DEF Spec, FinishedKept
===============================================================================
